---- MODULE Spec2Model ----
(***************************************************************************)
(* Decision table engine of ngnhng/go-decision-table: typed coercion, the  *)
(* operator algebra, row matching / materialization and the table-level    *)
(* orchestration (AddRow, SetDefaultRow, Evaluate, Rows).                  *)
(*                                                                         *)
(* Go values are modelled by their dynamic type: a record                  *)
(*   [t |-> type tag, n |-> number, s |-> string, l |-> elements]          *)
(* Pointers and slices (big.Float pointers, []any, []string, cell slices of *)
(* a Row) are references into `heap`, so that sharing of a backing array or *)
(* of a big.Float between two owners is visible.                           *)
(***************************************************************************)
EXTENDS Integers, Sequences, FiniteSets, TLC

(* ------------------------------ bounds --------------------------------- *)
\* rows a table may hold in the orchestration specification
MaxRows == 3
\* rows a table may hold in the isolation specification
MaxIsoRows == 1
\* caller-side mutations performed in one behaviour of the isolation spec
MaxMutations == 1

\* elements of a list a caller writes in a cell or in an input
MaxListLen == 2
\* rows of a table the goroutines evaluate
MaxCallRows == 2

(* --------------------------- Go values --------------------------------- *)
Val(t, n, s, l) == [t |-> t, n |-> n, s |-> s, l |-> l]
Nil == Val("nil", 0, "", <<>>)
\* host int (as a Go literal such as 18)
HostInt(k) == Val("int", k, "", <<>>)
Int64(k) == Val("int64", k, "", <<>>)
Str(x) == Val("string", 0, x, <<>>)
Bool(b) == Val("bool", IF b THEN 1 ELSE 0, "", <<>>)
\* a float64, in hundredths (0.05 is Float(5))
Float(k) == Val("float64", k, "", <<>>)
\* the content of a big.Float, in hundredths
Dec(k) == Val("dec", k, "", <<>>)
\* a time.Time, as a day number
Time(k) == Val("time", k, "", <<>>)
\* a compiled *regexp.Regexp
Regexp(p) == Val("regexp", 0, p, <<>>)
\* the content of a []any / []string / []int
Anys(l) == Val("anys", 0, "", l)
Strs(l) == Val("strs", 0, "", l)
Ints(l) == Val("ints", 0, "", l)
\* a pointer or slice header: the address of its heap object
Ref(a) == Val("ref", a, "", <<>>)

\* the function f, with its values computed once
Eager(f) == f @@ <<>>

Ok(v) == [ok |-> TRUE, v |-> v]
Err == [ok |-> FALSE, v |-> Nil]

(* --------------------------- strings ----------------------------------- *)
\* strings.TrimSpace on the strings the model uses
TrimSpace(s) ==
  CASE s = " " -> ""
    [] s = " 40 " -> "40"
    [] OTHER -> s

\* strconv.ParseInt(s, 10, 64) on the strings the model uses
ParseInt(s) ==
  CASE s = "40" -> Ok(Int64(40))
    [] s = "18" -> Ok(Int64(18))
    [] s = "20" -> Ok(Int64(20))
    [] s = "0" -> Ok(Int64(0))
    [] s = "1" -> Ok(Int64(1))
    [] OTHER -> Err

\* the number a decimal literal denotes, for the strings the model uses
\* (value in hundredths)
ParseDecimal(s) ==
  CASE s = "0.05" -> Ok(Dec(5))
    [] s = "0.2" -> Ok(Dec(20))
    [] s = "40" -> Ok(Dec(4000))
    [] s = "18" -> Ok(Dec(1800))
    [] s = "20" -> Ok(Dec(2000))
    [] s = "0" -> Ok(Dec(0))
    [] s = "1" -> Ok(Dec(100))
    [] s = "10.24" -> Ok(Dec(1024))
    [] s = "10.25" -> Ok(Dec(1025))
    [] OTHER -> Err

\* time.Parse("2006-01-02", s) on the strings the model uses (day numbers)
ParseDate(s) ==
  CASE s = "2024-01-01" -> Ok(Time(1))
    [] s = "2024-01-02" -> Ok(Time(2))
    [] OTHER -> Err

\* time.Parse(RFC3339Nano | RFC3339, s) on the strings the model uses
ParseDateTime(s) ==
  CASE s = "2024-01-01T00:00:00Z" -> Ok(Time(1))
    [] s = "2024-01-02T00:00:00Z" -> Ok(Time(2))
    [] OTHER -> Err

\* strings.ToLower on the strings the model uses
ToLower(s) ==
  CASE s = "TRUE" -> "true"
    [] s = "Yes" -> "yes"
    [] s = "NO" -> "no"
    [] OTHER -> s

\* fmt.Sprint of a scalar
Sprint(v) ==
  CASE v.t = "string" -> v.s
    [] v.t \in {"int", "int64", "uint", "uint8", "uint16", "uint32", "uint64"} ->
         ToString(v.n)
    [] v.t = "bool" -> (IF v.n = 1 THEN "true" ELSE "false")
    [] v.t = "float64" /\ v.n % 100 = 0 -> ToString(v.n \div 100)
    [] OTHER -> "?"

\* regexp.Compile succeeds on these patterns
ValidPatterns == {"^U", "R$"}

\* re.MatchString(value) for the patterns and strings the model uses
MatchString(p, s) ==
  CASE p = "^U" -> s \in {"US", "UK"}
    [] p = "R$" -> s \in {"FR"}
    [] OTHER -> FALSE

(* --------------------------- data model -------------------------------- *)
DataTypes == {"STRING", "INTEGER", "BOOLEAN", "DECIMAL", "DATE", "DATETIME",
              "LIST_STRING", "LIST_INTEGER"}

OperatorTypes == {"GT_EQ", "GT", "EQ", "LT", "LT_EQ", "NOT_EQ", "IN", "NOT_IN",
                  "ANY_CONTAINED_IN", "NOT_ANY_CONTAINED_IN", "ALL_CONTAINED_IN",
                  "NOT_ALL_CONTAINED_IN", "CONTAINS_ALL", "NOT_CONTAINS_ALL",
                  "ALL_EQUAL", "MATCHES_REGEX", "IS_NULL", "IS_NOT_NULL"}

MatchPolicies == {"FIRST", "ALL", "UNIQUE"}
NoMatchPolicies == {"RETURN_DEFAULT", "THROW_ERROR"}
RowValidationPolicies == {"STRICT", "LENIENT"}

\* the table's schema (the columns of the sample table of the tests, plus a
\* list-valued output column); name -> DataType
conditionColumns ==
  [c \in {"age", "country", "segments", "active", "score", "born", "seen", "codes"} |->
     CASE c = "age" -> "INTEGER"
       [] c = "country" -> "STRING"
       [] c = "segments" -> "LIST_STRING"
       [] c = "active" -> "BOOLEAN"
       [] c = "score" -> "DECIMAL"
       [] c = "born" -> "DATE"
       [] c = "seen" -> "DATETIME"
       [] c = "codes" -> "LIST_INTEGER"]

outputColumns ==
  [c \in {"tier", "discount", "tags"} |->
     CASE c = "tier" -> "STRING"
       [] c = "discount" -> "DECIMAL"
       [] c = "tags" -> "LIST_STRING"]

(* ------------------------- the callers' inputs ------------------------- *)
\* a cell as the caller writes it in the Row passed to AddRow / SetDefaultRow
RawEval(col, op, v) == [Column |-> col, Operator |-> op, Value |-> v]
RawReturn(col, v) == [Column |-> col, Operator |-> "", Value |-> v]
RawRow(ev, ret, id, comments, number) ==
  [EvalCells |-> ev, ReturnCells |-> ret, RuleID |-> id, Comments |-> comments, Number |-> number]

RowAdult ==
  RawRow(<<RawEval("age", "GT_EQ", HostInt(18))>>,
         <<RawReturn("tier", Str("standard")), RawReturn("discount", Float(5))>>,
         "adult", "adults", 0)
RowUS ==
  RawRow(<<RawEval("country", "IN", Strs(<<Str("US"), Str("CA")>>))>>,
         <<RawReturn("discount", Float(5)), RawReturn("tags", Strs(<<Str("a"), Str("b")>>))>>,
         "us", "", 0)
RowSenior ==
  RawRow(<<RawEval("country", "EQ", Str("US")), RawEval("age", "GT_EQ", HostInt(30))>>,
         <<RawReturn("tier", Str("premium"))>>,
         "senior", "numbered by the caller", 2)
\* a row without condition cells, numbered -1 by the caller
RowNoCondition ==
  RawRow(<<>>, <<RawReturn("tier", Str("any"))>>, "any", "", 0 - 1)
RowNoReturn ==
  RawRow(<<RawEval("age", "GT_EQ", HostInt(1))>>, <<>>, "no-return", "", 0)
RowUnknownColumn ==
  RawRow(<<RawEval("zip", "EQ", Str("1"))>>, <<RawReturn("tier", Str("x"))>>, "bad-column", "", 0)
RowMissingOperator ==
  RawRow(<<RawEval("age", "", HostInt(1))>>, <<RawReturn("tier", Str("x"))>>, "bad-operator", "", 0)
RowBadValue ==
  RawRow(<<RawEval("age", "GT_EQ", Str("abc"))>>, <<RawReturn("tier", Str("x"))>>, "bad-value", "", 0)
RowBadReturn ==
  RawRow(<<RawEval("age", "GT_EQ", HostInt(1))>>, <<RawReturn("discount", Str("abc"))>>,
         "bad-return", "", 0)

\* the rows offered to the orchestration specification
TableRows == {RowAdult, RowSenior, RowNoCondition}
\* the rows offered to the isolation specification
IsoRows == {RowUS}
BadRows == {RowUnknownColumn, RowMissingOperator, RowBadValue, RowBadReturn, RowNoReturn}

DefaultMinor ==
  RawRow(<<>>, <<RawReturn("tier", Str("minor")), RawReturn("discount", Float(0))>>,
         "default-row", "", 0)
DefaultTagged ==
  RawRow(<<>>, <<RawReturn("tags", Strs(<<Str("d")>>))>>, "default-tags", "", 0)
DefaultWithCondition ==
  RawRow(<<RawEval("age", "GT_EQ", HostInt(1))>>, <<RawReturn("tier", Str("x"))>>,
         "default-cond", "", 0)
DefaultNoReturn == RawRow(<<>>, <<>>, "default-empty", "", 0)
DefaultBadValue ==
  RawRow(<<>>, <<RawReturn("discount", Str("abc"))>>, "default-bad", "", 0)

TableDefaultRows == {DefaultMinor, DefaultWithCondition, DefaultNoReturn, DefaultBadValue}
IsoDefaultRows == {DefaultTagged}
AllRows == TableRows \cup IsoRows \cup BadRows \cup TableDefaultRows \cup IsoDefaultRows

Input(age, country) == [c \in {"age", "country"} |-> IF c = "age" THEN age ELSE country]
Inputs ==
  {Input(HostInt(20), Nil), Input(HostInt(40), Str("US")), Input(HostInt(10), Str("US")),
   Input(Str("abc"), Str("US")), Input(Str("abc"), Str("FR"))}
IsoInputs == {Input(HostInt(20), Str("US")), Input(HostInt(20), Str("FR"))}

\* the fallback map of TestDecisionTableFallbackDefaultReturn
FallbackScalars == [c \in {"tier", "discount"} |-> IF c = "tier" THEN Str("fallback") ELSE Float(0)]
\* fallback maps holding a big.Float pointer, a []any with a pointer in it
\* and a []string
FallbackDecimal == [c \in {"discount"} |-> Dec(10)]
FallbackAnys == [c \in {"tags"} |-> Anys(<<Str("x"), Dec(1)>>)]
FallbackStrings == [c \in {"tags"} |-> Strs(<<Str("x")>>)]
FallbackMaps == {FallbackScalars, FallbackDecimal, FallbackAnys, FallbackStrings}

\* two raw values of the (element) type of a condition column
Elements(col) ==
  CASE conditionColumns[col] \in {"STRING", "LIST_STRING"} -> {Str("US"), Str("FR")}
    [] conditionColumns[col] \in {"INTEGER", "LIST_INTEGER"} -> {HostInt(18), HostInt(40)}
    [] conditionColumns[col] = "BOOLEAN" -> {Bool(TRUE), Str("NO")}
    [] conditionColumns[col] = "DECIMAL" -> {Float(5), Str("0.2")}
    [] conditionColumns[col] = "DATE" -> {Str("2024-01-01"), Str("2024-01-02")}
    [] conditionColumns[col] = "DATETIME" ->
         {Str("2024-01-01T00:00:00Z"), Str("2024-01-02T00:00:00Z")}
\* values beyond the precision of a float64: integers at and above 2^53,
\* decimal literals that differ in their last digit only
Extras(col) ==
  CASE conditionColumns[col] = "INTEGER" -> {Int64(1024), Int64(1025)}
    [] conditionColumns[col] = "DECIMAL" -> {Str("10.24"), Str("10.25")}
    [] OTHER -> {}
\* the []any values over these elements
Lists(col) == {Anys(l) : l \in UNION {[1..n -> Elements(col)] : n \in 0..MaxListLen}}
\* the expected values a caller writes in a condition cell on the column
CellValues(col) == {Nil} \cup Elements(col) \cup Extras(col) \cup Lists(col)
\* the operators a caller writes, one of them misspelt
CellOperators == OperatorTypes \cup {"GTE"}
\* the condition cells offered to the cell specification
Cells ==
  UNION {{RawEval(col, op, v) : op \in CellOperators, v \in CellValues(col)} :
           col \in DOMAIN conditionColumns}
\* the inputs offered for a cell on the column: without the column, or with
\* null, a value of the column, a list, or a word
CellInputs(col) ==
  {<<>>} \cup {[c \in {col} |-> v] :
              v \in {Nil, Str("abc")} \cup Elements(col) \cup Extras(col) \cup Lists(col)}

\* an unsigned host integer of the given type
Uint(tag, k) == Val(tag, k, "", <<>>)

(* --------------------------- coercion ---------------------------------- *)
IntTags == {"int", "int8", "int16", "int32", "int64"}
UintTags == {"uint", "uint8", "uint16", "uint32", "uint64"}
SliceTags == {"anys", "strs", "ints"}
\* math.MaxInt64, with the 64-bit word scaled to 16 bits
MaxInt64 == 32767
\* 2^53, the first magnitude float64 cannot hold exactly, on the same scale (2^10)
Float64Exact == 1024

\* float64(v) of an integer v: exact below 2^53, otherwise rounded to the nearest
\* representable value, ties to even
RECURSIVE UlpOf(_, _)
\* the distance between neighbouring values of magnitude a when magnitudes
\* below `exact` are held exactly
UlpOf(a, exact) == IF a < exact THEN 1 ELSE 2 * UlpOf(a \div 2, exact)
\* rounding to the nearest such value, ties to even
RoundQuotient(q, r, u) == IF 2 * r > u \/ (2 * r = u /\ q % 2 = 1) THEN q + 1 ELSE q
RoundMagnitude(a, u) == RoundQuotient(a \div u, a % u, u) * u
RoundTo(n, exact) ==
  IF n < 0 THEN 0 - RoundMagnitude(0 - n, UlpOf(0 - n, exact))
  ELSE RoundMagnitude(n, UlpOf(n, exact))

Ulp(a) == UlpOf(a, Float64Exact)
ToFloat64(n) == RoundTo(n, Float64Exact)

\* the significand of a big.Float of decimalPrecision bits: 24 bits stand
\* for the 128 of the code as the 10 of Float64Exact stand for 53
decimalPrecision == 24
DecimalExact == 2^decimalPrecision
SetPrec(n) == RoundTo(n, DecimalExact)

\* SetString keeping the 53 bits of a float64 only
SetStringDouble(s) ==
  IF ParseDecimal(s).ok THEN Ok(Dec(ToFloat64(ParseDecimal(s).v.n))) ELSE Err

\* new(big.Float).SetPrec(decimalPrecision).SetString(s)
SetString(s) ==
  IF ParseDecimal(s).ok THEN Ok(Dec(SetPrec(ParseDecimal(s).v.n))) ELSE Err

\* math.MaxUint64 on the same scale as MaxInt64
MaxUint64 == 2 * MaxInt64 + 1
\* int64(v) of a 64-bit unsigned v: the same bits read as two's complement
Int64OfBits(n) == IF n > MaxInt64 THEN n - (MaxUint64 + 1) ELSE n

toInterfaceSlice(raw) ==
  CASE raw.t = "nil" -> Ok(Anys(<<>>))
    [] raw.t \in SliceTags -> Ok(Anys(raw.l))
    [] OTHER -> Err

toInt64(raw) ==
  CASE raw.t \in IntTags -> Ok(Int64(raw.n))
    [] raw.t = "uint" -> Ok(Int64(Int64OfBits(raw.n)))
    [] raw.t \in {"uint8", "uint16", "uint32"} -> Ok(Int64(raw.n))
    [] raw.t = "uint64" -> (IF raw.n > MaxInt64 THEN Err ELSE Ok(Int64(raw.n)))
    [] raw.t = "float64" -> (IF raw.n % 100 # 0 THEN Err ELSE Ok(Int64(raw.n \div 100)))
    [] raw.t = "string" ->
         (IF TrimSpace(raw.s) = "" THEN Err ELSE ParseInt(TrimSpace(raw.s)))
    [] OTHER -> Err

toBigFloat(raw) ==
  CASE raw.t = "nil" -> Ok(Nil)
    [] raw.t = "dec" -> Ok(Dec(raw.n))
    [] raw.t = "string" ->
         (IF TrimSpace(raw.s) = "" THEN Err ELSE SetString(TrimSpace(raw.s)))
    [] raw.t \in {"int", "uint"} -> Ok(Dec(ToFloat64(raw.n) * 100))
    [] raw.t \in (IntTags \cup UintTags) \ {"int", "uint", "uint64"} -> Ok(Dec(raw.n * 100))
    [] raw.t = "uint64" -> (IF raw.n > MaxInt64 THEN Err ELSE Ok(Dec(raw.n * 100)))
    [] raw.t = "float64" -> Ok(Dec(raw.n))
    [] OTHER -> Err

toBool(raw) ==
  CASE raw.t = "bool" -> Ok(raw)
    [] raw.t = "string" ->
         (IF TrimSpace(raw.s) = "" THEN Err
          ELSE IF ToLower(TrimSpace(raw.s)) \in {"true", "1", "yes", "y"} THEN Ok(Bool(TRUE))
          ELSE IF ToLower(TrimSpace(raw.s)) \in {"false", "0", "no", "n"} THEN Ok(Bool(FALSE))
          ELSE Err)
    [] raw.t \in IntTags \cup UintTags -> Ok(Bool(raw.n # 0))
    [] OTHER -> Err

toTrimmedString(raw) ==
  CASE raw.t = "nil" -> Err
    [] raw.t = "string" ->
         (IF TrimSpace(raw.s) = "" THEN Err ELSE Ok(Str(TrimSpace(raw.s))))
    [] OTHER ->
         (IF TrimSpace(Sprint(raw)) = "" THEN Err ELSE Ok(Str(TrimSpace(Sprint(raw)))))

parseISODate(raw) ==
  IF toTrimmedString(raw).ok THEN ParseDate(toTrimmedString(raw).v.s) ELSE Err

parseISODateTime(raw) ==
  IF toTrimmedString(raw).ok THEN ParseDateTime(toTrimmedString(raw).v.s) ELSE Err

elementDataType(dt) ==
  CASE dt = "LIST_STRING" -> "STRING"
    [] dt = "LIST_INTEGER" -> "INTEGER"
    [] OTHER -> dt

RECURSIVE coercePrimitive(_, _)
\* the element loop shared by coerceList and sanitizeCollection
CoerceElements(elemType, values) ==
  LET rs == Eager([i \in DOMAIN values |-> coercePrimitive(elemType, values[i])])
  IN IF \A i \in DOMAIN values : rs[i].ok
     THEN Ok(Anys([i \in DOMAIN values |-> rs[i].v]))
     ELSE Err

coerceList(raw, elemType) ==
  IF toInterfaceSlice(raw).ok
  THEN CoerceElements(elemType, toInterfaceSlice(raw).v.l)
  ELSE Err

\* coercePrimitive taking a STRING through toTrimmedString as well
coercePrimitiveTrimmed(dt, raw) ==
  IF raw.t = "nil" THEN Ok(Nil)
  ELSE CASE dt = "STRING" -> toTrimmedString(raw)
         [] dt = "INTEGER" -> toInt64(raw)
         [] dt = "DECIMAL" -> toBigFloat(raw)
         [] dt = "BOOLEAN" -> toBool(raw)
         [] dt = "DATE" -> parseISODate(raw)
         [] dt = "DATETIME" -> parseISODateTime(raw)
         [] dt = "LIST_STRING" -> coerceList(raw, "STRING")
         [] dt = "LIST_INTEGER" -> coerceList(raw, "INTEGER")
         [] OTHER -> Err

coercePrimitive(dt, raw) ==
  IF raw.t = "nil" THEN Ok(Nil)
  ELSE CASE dt = "STRING" -> Ok(Str(Sprint(raw)))
         [] dt = "INTEGER" -> toInt64(raw)
         [] dt = "DECIMAL" -> toBigFloat(raw)
         [] dt = "BOOLEAN" -> toBool(raw)
         [] dt = "DATE" -> parseISODate(raw)
         [] dt = "DATETIME" -> parseISODateTime(raw)
         [] dt = "LIST_STRING" -> coerceList(raw, "STRING")
         [] dt = "LIST_INTEGER" -> coerceList(raw, "INTEGER")
         [] OTHER -> Err

sanitizeCollection(dt, raw) ==
  IF raw.t = "nil" THEN Ok(Anys(<<>>))
  ELSE IF toInterfaceSlice(raw).ok
       THEN CoerceElements(elementDataType(dt), toInterfaceSlice(raw).v.l)
       ELSE Err

requiresCollectionValue(op) ==
  op \in {"IN", "NOT_IN", "ANY_CONTAINED_IN", "NOT_ANY_CONTAINED_IN",
          "ALL_CONTAINED_IN", "NOT_ALL_CONTAINED_IN", "CONTAINS_ALL",
          "NOT_CONTAINS_ALL"}

expectsActualCollection(op) ==
  op \in {"ANY_CONTAINED_IN", "NOT_ANY_CONTAINED_IN", "ALL_CONTAINED_IN",
          "NOT_ALL_CONTAINED_IN", "CONTAINS_ALL", "NOT_CONTAINS_ALL",
          "ALL_EQUAL"}

sanitizeExpectedValue(dt, op, raw) ==
  CASE op = "MATCHES_REGEX" ->
         (IF raw.t = "nil" THEN Err
          ELSE IF coercePrimitive("STRING", raw).v.s \in ValidPatterns
               THEN Ok(Regexp(coercePrimitive("STRING", raw).v.s))
               ELSE Err)
    [] op \in {"IS_NULL", "IS_NOT_NULL"} ->
         (IF raw.t = "nil" THEN Ok(Bool(TRUE))
          ELSE IF ~toBool(raw).ok THEN Err
          ELSE IF toBool(raw).v.n = 0 THEN Err
          ELSE Ok(toBool(raw).v))
    [] OTHER ->
         (IF requiresCollectionValue(op) THEN sanitizeCollection(dt, raw)
          ELSE coercePrimitive(dt, raw))

sanitizeReturnValue(dt, raw) == coercePrimitive(dt, raw)

sanitizeActualValue(dt, actual) == coercePrimitive(dt, actual)

sanitizeActualCollection(dt, actual) == sanitizeCollection(dt, actual)

(* --------------------------- operators --------------------------------- *)
\* (bool, error) results of the operator engine
Res(b) == [err |-> FALSE, b |-> b]
Fail == [err |-> TRUE, b |-> FALSE]
\* the negation that returns !match with a nil error
NotWithoutError(r) == [err |-> FALSE, b |-> ~r.b]
\* return !match, err
Not(r) == [err |-> r.err, b |-> ~r.b]

Min(S) == CHOOSE x \in S : \A y \in S : x <= y
Max(S) == CHOOSE x \in S : \A y \in S : x >= y

\* a loop over results rs that returns the first error, or stopOn at the
\* first result equal to stopOn, and otherwise ~stopOn after the last one
LoopUntil(results, stopOn) ==
  LET rs == Eager(results)
      stop == {i \in DOMAIN rs : rs[i].err \/ rs[i].b = stopOn}
  IN IF stop = {} THEN Res(~stopOn)
     ELSE IF rs[Min(stop)].err THEN Fail ELSE Res(stopOn)

RECURSIVE equals(_, _, _)
equalsList(elemType, left, right) ==
  IF left.t # "anys" \/ right.t # "anys" THEN Fail
  ELSE IF Len(left.l) # Len(right.l) THEN Res(FALSE)
  ELSE LoopUntil([i \in DOMAIN left.l |-> equals(elemType, left.l[i], right.l[i])], FALSE)

\* equals asserting the types of both sides before it looks for nil
equalsTypeFirst(dt, left, right) ==
  CASE dt = "STRING" ->
         (IF left.t # "string" \/ right.t # "string" THEN Fail ELSE Res(left.s = right.s))
    [] dt = "INTEGER" ->
         (IF left.t # "int64" \/ right.t # "int64" THEN Fail ELSE Res(left.n = right.n))
    [] dt = "DECIMAL" ->
         (IF left.t # "dec" \/ right.t # "dec" THEN Fail ELSE Res(left.n = right.n))
    [] dt = "BOOLEAN" ->
         (IF left.t # "bool" \/ right.t # "bool" THEN Fail ELSE Res(left.n = right.n))
    [] dt \in {"DATE", "DATETIME"} ->
         (IF left.t # "time" \/ right.t # "time" THEN Fail ELSE Res(left.n = right.n))
    [] dt = "LIST_STRING" -> equalsList("STRING", left, right)
    [] dt = "LIST_INTEGER" -> equalsList("INTEGER", left, right)
    [] OTHER -> Fail

equals(dt, left, right) ==
  IF left.t = "nil" \/ right.t = "nil" THEN Res(left.t = "nil" /\ right.t = "nil")
  ELSE CASE dt = "STRING" ->
              (IF left.t # "string" \/ right.t # "string" THEN Fail ELSE Res(left.s = right.s))
         [] dt = "INTEGER" ->
              (IF left.t # "int64" \/ right.t # "int64" THEN Fail ELSE Res(left.n = right.n))
         [] dt = "DECIMAL" ->
              (IF left.t # "dec" \/ right.t # "dec" THEN Fail ELSE Res(left.n = right.n))
         [] dt = "BOOLEAN" ->
              (IF left.t # "bool" \/ right.t # "bool" THEN Fail ELSE Res(left.n = right.n))
         [] dt \in {"DATE", "DATETIME"} ->
              (IF left.t # "time" \/ right.t # "time" THEN Fail ELSE Res(left.n = right.n))
         [] dt = "LIST_STRING" -> equalsList("STRING", left, right)
         [] dt = "LIST_INTEGER" -> equalsList("INTEGER", left, right)
         [] OTHER -> Fail

\* the final switch on op of compare
Ordered(op, l, r) ==
  CASE op = "GT" -> Res(l > r)
    [] op = "GT_EQ" -> Res(l >= r)
    [] op = "LT" -> Res(l < r)
    [] op = "LT_EQ" -> Res(l <= r)
    [] OTHER -> Fail

\* compare ordering the values of every other type by their content
compareAnyType(dt, op, left, right) ==
  IF left.t = "nil" \/ right.t = "nil" THEN Res(FALSE)
  ELSE CASE dt = "INTEGER" ->
              (IF left.t # "int64" \/ right.t # "int64" THEN Fail
               ELSE Ordered(op, ToFloat64(left.n), ToFloat64(right.n)))
         [] dt = "DECIMAL" ->
              (IF left.t # "dec" \/ right.t # "dec" THEN Fail
               ELSE Ordered(op, left.n, right.n))
         [] OTHER -> Ordered(op, left.n, right.n)

compare(dt, op, left, right) ==
  IF left.t = "nil" \/ right.t = "nil" THEN Res(FALSE)
  ELSE CASE dt = "INTEGER" ->
              (IF left.t # "int64" \/ right.t # "int64" THEN Fail
               ELSE Ordered(op, ToFloat64(left.n), ToFloat64(right.n)))
         [] dt = "DECIMAL" ->
              (IF left.t # "dec" \/ right.t # "dec" THEN Fail
               ELSE Ordered(op, left.n, right.n))
         [] dt \in {"DATE", "DATETIME"} ->
              (IF left.t # "time" \/ right.t # "time" THEN Fail
               ELSE Ordered(op, left.n, right.n))
         [] OTHER -> Fail

\* containsValue comparing the elements under the type of the column
containsValueByColumnType(dt, haystack, needle) ==
  LoopUntil([i \in DOMAIN haystack |-> equals(dt, haystack[i], needle)], TRUE)

containsValue(dt, haystack, needle) ==
  LoopUntil([i \in DOMAIN haystack |-> equals(elementDataType(dt), haystack[i], needle)], TRUE)

\* evaluateScalarOperator testing the nullity of the expected value
evaluateScalarOperatorNullOfExpected(dt, op, actual, expected) ==
  CASE op = "EQ" -> equals(dt, actual, expected)
    [] op = "NOT_EQ" -> Not(equals(dt, actual, expected))
    [] op \in {"GT", "GT_EQ", "LT", "LT_EQ"} -> compare(dt, op, actual, expected)
    [] op = "IN" ->
         (IF expected.t # "anys" THEN Fail ELSE containsValue(dt, expected.l, actual))
    [] op = "NOT_IN" ->
         (IF expected.t # "anys" THEN Fail ELSE Not(containsValue(dt, expected.l, actual)))
    [] op = "MATCHES_REGEX" ->
         (IF actual.t = "nil" THEN Res(FALSE)
          ELSE IF expected.t # "regexp" THEN Fail
          ELSE IF actual.t # "string" THEN Fail
          ELSE Res(MatchString(expected.s, actual.s)))
    [] op = "IS_NULL" -> Res(expected.t = "nil")
    [] op = "IS_NOT_NULL" -> Res(expected.t # "nil")
    [] OTHER -> Fail

evaluateScalarOperator(dt, op, actual, expected) ==
  CASE op = "EQ" -> equals(dt, actual, expected)
    [] op = "NOT_EQ" -> Not(equals(dt, actual, expected))
    [] op \in {"GT", "GT_EQ", "LT", "LT_EQ"} -> compare(dt, op, actual, expected)
    [] op = "IN" ->
         (IF expected.t # "anys" THEN Fail ELSE containsValue(dt, expected.l, actual))
    [] op = "NOT_IN" ->
         (IF expected.t # "anys" THEN Fail ELSE Not(containsValue(dt, expected.l, actual)))
    [] op = "MATCHES_REGEX" ->
         (IF actual.t = "nil" THEN Res(FALSE)
          ELSE IF expected.t # "regexp" THEN Fail
          ELSE IF actual.t # "string" THEN Fail
          ELSE Res(MatchString(expected.s, actual.s)))
    [] op = "IS_NULL" -> Res(actual.t = "nil")
    [] op = "IS_NOT_NULL" -> Res(actual.t # "nil")
    [] OTHER -> Fail

RECURSIVE evaluateCollectionOperator(_, _, _, _)
evaluateCollectionOperator(dt, op, actual, expected) ==
  CASE op = "ANY_CONTAINED_IN" ->
         (IF expected.t # "anys" THEN Fail
          ELSE LoopUntil([i \in DOMAIN actual |-> containsValue(dt, expected.l, actual[i])], TRUE))
    [] op = "NOT_ANY_CONTAINED_IN" ->
         Not(evaluateCollectionOperator(dt, "ANY_CONTAINED_IN", actual, expected))
    [] op = "ALL_CONTAINED_IN" ->
         (IF expected.t # "anys" THEN Fail
          ELSE LoopUntil([i \in DOMAIN actual |-> containsValue(dt, expected.l, actual[i])], FALSE))
    [] op = "NOT_ALL_CONTAINED_IN" ->
         Not(evaluateCollectionOperator(dt, "ALL_CONTAINED_IN", actual, expected))
    [] op = "CONTAINS_ALL" ->
         (IF expected.t # "anys" THEN Fail
          ELSE LoopUntil([i \in DOMAIN expected.l |-> containsValue(dt, actual, expected.l[i])], FALSE))
    [] op = "NOT_CONTAINS_ALL" ->
         Not(evaluateCollectionOperator(dt, "CONTAINS_ALL", actual, expected))
    [] op = "ALL_EQUAL" ->
         (IF expected.t = "nil" THEN Fail
          ELSE LET r == LoopUntil([i \in DOMAIN actual |-> equals(dt, actual[i], expected)], FALSE)
               IN IF r.err \/ ~r.b THEN r ELSE Res(Len(actual) > 0))
    [] OTHER -> Fail

\* actual is the raw input value, expected the sanitized value of the cell
evaluateCell(dt, op, actual, expected) ==
  IF expectsActualCollection(op)
  THEN IF ~sanitizeActualCollection(dt, actual).ok THEN Fail
       ELSE evaluateCollectionOperator(dt, op, sanitizeActualCollection(dt, actual).v.l, expected)
  ELSE IF ~sanitizeActualValue(dt, actual).ok THEN Fail
       ELSE evaluateScalarOperator(dt, op, sanitizeActualValue(dt, actual).v, expected)

(* ------------------------------ heap ----------------------------------- *)
\* The heap is laid out in regions, one per owner, so that the address of an
\* object is fixed by what it is: the caller's fallback map, the default row,
\* each stored row, the latest result and an earlier result the caller kept.
\* objects a fallback map, a row and a result entry hold at most
RECURSIVE ObjsOf(_), ObjsOfSeq(_)
\* the heap objects a value is made of
ObjsOf(v) ==
  IF v.t = "dec" THEN 1 ELSE IF v.t \in SliceTags THEN 1 + ObjsOfSeq(v.l) ELSE 0
ObjsOfSeq(l) == IF l = <<>> THEN 0 ELSE ObjsOf(Head(l)) + ObjsOfSeq(Tail(l))
RECURSIVE ObjsOfMap(_, _)
ObjsOfMap(m, keys) ==
  IF keys = {} THEN 0
  ELSE LET k == CHOOSE x \in keys : TRUE IN ObjsOf(m[k]) + ObjsOfMap(m, keys \ {k})
FallbackObjs == Max({ObjsOfMap(m, DOMAIN m) : m \in FallbackMaps})
RowObjs == Max({2 + Len(r.EvalCells) + Len(r.ReturnCells) : r \in AllRows})
EntryObjs == Max({Len(r.ReturnCells) : r \in AllRows})
RowsCap == IF MaxRows > MaxIsoRows THEN MaxRows ELSE MaxIsoRows
ResultObjs == IF EntryObjs * RowsCap > FallbackObjs THEN EntryObjs * RowsCap ELSE FallbackObjs
FallbackBase == 1
DefaultBase == FallbackBase + FallbackObjs
RowBase(i) == DefaultBase + RowObjs * i
ResBase == RowBase(RowsCap + 1)
PrevBase == ResBase + ResultObjs
HeapSize == PrevBase + ResultObjs - 1

Addr == 1..HeapSize

\* a heap object: a big.Float ("dec", n), the backing array of a []any,
\* []string or []int ("anys", "strs", "ints", l) or of a []EvalCell /
\* []ReturnCell ("cells", c)
Obj(t, n, l, c) == [t |-> t, n |-> n, l |-> l, c |-> c]
FreeObj == Obj("free", 0, <<>>, <<>>)
EmptyHeap == [a \in Addr |-> FreeObj]

FreeAddrs(h) == {a \in Addr : h[a].t = "free"}
NewAddr(h) == Min(FreeAddrs(h))
IsRefTo(v, h, t) == v.t = "ref" /\ h[v.n].t = t

\* a stored cell; Operator is "" in a ReturnCell
Cell(col, op, v, dt) == [Column |-> col, Operator |-> op, Value |-> v, dataType |-> dt]

\* new(big.Float) / make([]T, n): the object o at the next address
Alloc(o, h) == [v |-> Ref(NewAddr(h)), h |-> [h EXCEPT ![NewAddr(h)] = o]]
\* an element list r.l built on the heap r.h, made the slice of tag t
AllocSlice(t, r) == Alloc(Obj(t, 0, r.l, <<>>), r.h)
\* the element list b.l with v in front
Prepend(v, b) == [l |-> <<v>> \o b.l, h |-> b.h]

\* allocation of a freshly built value: a big.Float or a slice goes to the
\* heap and is held by reference, anything else is held by value
RECURSIVE Store(_, _), StoreSeq(_, _), StoreTail(_, _)
StoreSeq(l, h) ==
  IF l = <<>> THEN [l |-> <<>>, h |-> h] ELSE StoreTail(Tail(l), Store(Head(l), h))
StoreTail(l, a) == Prepend(a.v, StoreSeq(l, a.h))

Store(v, h) ==
  CASE v.t = "dec" -> Alloc(Obj("dec", v.n, <<>>, <<>>), h)
    [] v.t \in SliceTags -> AllocSlice(v.t, StoreSeq(v.l, h))
    [] OTHER -> [v |-> v, h |-> h]

\* m[k] = v on a Go map
MapPut(m, k, v) == [x \in (DOMAIN m) \cup {k} |-> IF x = k THEN v ELSE m[x]]

RECURSIVE StoreEntries(_, _, _, _)
\* a map literal of the caller, built entry by entry
StoreEntry(src, keys, dst, k, c) == StoreEntries(src, keys \ {k}, MapPut(dst, k, c.v), c.h)
StoreEntries(src, keys, dst, h) ==
  IF keys = {} THEN [m |-> dst, h |-> h]
  ELSE StoreEntry(src, keys, dst, CHOOSE x \in keys : TRUE,
                  Store(src[CHOOSE x \in keys : TRUE], h))

\* the value a reference denotes, with everything it holds
RECURSIVE Load(_, _)
Load(v, h) ==
  IF v.t = "ref"
  THEN Val(h[v.n].t, h[v.n].n, "", [i \in DOMAIN h[v.n].l |-> Load(h[v.n].l[i], h)])
  ELSE v

\* the cells of a cell slice (address 0 is the empty slice)
CellsAt(a, h) == IF a = 0 THEN <<>> ELSE h[a].c

(* --------------------------- clone-on-read ----------------------------- *)
\* cloneDecimal moving the number out of the stored big.Float
cloneDecimalMove(v, h) ==
  Alloc(Obj("dec", h[v.n].n, <<>>, <<>>), [h EXCEPT ![v.n].n = 0])

cloneDecimal(v, h) == Alloc(Obj("dec", h[v.n].n, <<>>, <<>>), h)

RECURSIVE cloneArbitraryValue(_, _), CloneElements(_, _), CloneTail(_, _)
\* the element loop of cloneAnySlice
CloneElements(l, h) ==
  IF l = <<>> THEN [l |-> <<>>, h |-> h]
  ELSE CloneTail(Tail(l), cloneArbitraryValue(Head(l), h))
CloneTail(l, a) == Prepend(a.v, CloneElements(l, a.h))

cloneAnySlice(v, h) == AllocSlice("anys", CloneElements(h[v.n].l, h))

cloneArbitraryValue(v, h) ==
  IF IsRefTo(v, h, "dec") THEN cloneDecimal(v, h)
  ELSE IF IsRefTo(v, h, "anys") THEN cloneAnySlice(v, h)
  ELSE [v |-> v, h |-> h]

\* cloneValueForType without the list branch
cloneValueForTypeDecimalOnly(v, dt, h) ==
  IF dt = "DECIMAL" /\ IsRefTo(v, h, "dec") THEN cloneDecimal(v, h)
  ELSE [v |-> v, h |-> h]

cloneValueForType(v, dt, h) ==
  IF dt = "DECIMAL" /\ IsRefTo(v, h, "dec") THEN cloneDecimal(v, h)
  ELSE IF dt \in {"LIST_STRING", "LIST_INTEGER"} /\ IsRefTo(v, h, "anys") THEN cloneAnySlice(v, h)
  ELSE [v |-> v, h |-> h]

\* a map[string]any that may be nil
NilMap == [nil |-> TRUE, m |-> <<>>]
GoMap(m) == [nil |-> FALSE, m |-> m]

RECURSIVE CloneEntries(_, _, _, _)
\* dst[k] = c of the range loop of cloneMap, and the keys not yet copied
CloneEntry(src, keys, dst, k, c) == CloneEntries(src, keys \ {k}, MapPut(dst, k, c.v), c.h)
CloneEntries(src, keys, dst, h) ==
  IF keys = {} THEN [m |-> dst, h |-> h]
  ELSE CloneEntry(src, keys, dst, CHOOSE x \in keys : TRUE,
                  cloneArbitraryValue(src[CHOOSE x \in keys : TRUE], h))

\* the map cloneMap returns
ClonedMap(r) == [m |-> GoMap(r.m), h |-> r.h]
cloneMap(src, h) ==
  IF src.nil THEN [m |-> NilMap, h |-> h]
  ELSE ClonedMap(CloneEntries(src.m, DOMAIN src.m, <<>>, h))

(* ------------------------------- rows ---------------------------------- *)
\* a Row value: the two cell slices are slice headers (addresses)
Row(ev, ret, id, comments, number) ==
  [EvalCells |-> ev, ReturnCells |-> ret, RuleID |-> id, Comments |-> comments, Number |-> number]

InputGet(input, c) == IF c \in DOMAIN input THEN input[c] ELSE Nil

\* the verdicts of the cells of a row, in order
CellVerdicts(cells, input, h) ==
  [i \in DOMAIN cells |->
     IF cells[i].dataType = "" THEN Fail
     ELSE evaluateCell(cells[i].dataType, cells[i].Operator,
                       InputGet(input, cells[i].Column), Load(cells[i].Value, h))]

\* the verdict of a row that evaluates every cell before it decides
AllVerdicts(rs) ==
  IF \E i \in DOMAIN rs : rs[i].err THEN Fail
  ELSE Res(\A i \in DOMAIN rs : rs[i].b)
\* matches without the return at the first non-match
matchesEveryCell(r, input, h) == AllVerdicts(CellVerdicts(CellsAt(r.EvalCells, h), input, h))

matches(r, input, h) == LoopUntil(CellVerdicts(CellsAt(r.EvalCells, h), input, h), FALSE)

RECURSIVE MaterializeCells(_, _, _)
\* values[cell.Column] = c of the range loop of materializeReturnValues
MaterializeCell(cells, values, col, c) ==
  MaterializeCells(cells, MapPut(values, col, c.v), c.h)
MaterializeCells(cells, values, h) ==
  IF cells = <<>> THEN [m |-> values, h |-> h]
  ELSE MaterializeCell(Tail(cells), values, Head(cells).Column,
                       cloneValueForType(Head(cells).Value, Head(cells).dataType, h))

materializeReturnValues(r, h) == MaterializeCells(CellsAt(r.ReturnCells, h), <<>>, h)

(* -------------------------- row preparation ---------------------------- *)
\* the cell stored for a sanitized value sv, or the error of its sanitization
PreparedCell(cell, op, dt, sv) ==
  IF ~sv.ok THEN [why |-> "sanitize", c |-> cell]
  ELSE [why |-> "", c |-> Cell(cell.Column, op, sv.v, dt)]

\* one iteration of the first loop of prepareRow
PrepareEvalCell(cell) ==
  IF cell.Column \notin DOMAIN conditionColumns THEN [why |-> "unknown column", c |-> cell]
  ELSE IF cell.Operator = "" THEN [why |-> "missing operator", c |-> cell]
  ELSE PreparedCell(cell, cell.Operator, conditionColumns[cell.Column],
                    sanitizeExpectedValue(conditionColumns[cell.Column], cell.Operator,
                                          cell.Value))

\* one iteration of the second loop of prepareRow
PrepareReturnCell(cell) ==
  IF cell.Column \notin DOMAIN outputColumns THEN [why |-> "unknown column", c |-> cell]
  ELSE PreparedCell(cell, "", outputColumns[cell.Column],
                    sanitizeReturnValue(outputColumns[cell.Column], cell.Value))

RECURSIVE StoreCells(_, _)
\* the sanitized values of the cells, allocated
PrependCell(c, b) == [c |-> <<c>> \o b.c, h |-> b.h]
StoreCell(cells, a) ==
  PrependCell([Head(cells) EXCEPT !.Value = a.v], StoreCells(Tail(cells), a.h))
StoreCells(cells, h) ==
  IF cells = <<>> THEN [c |-> <<>>, h |-> h]
  ELSE StoreCell(cells, Store(Head(cells).Value, h))

\* make([]EvalCell, n) / make([]ReturnCell, n), filled with the cells
AllocCells(r) ==
  [a |-> NewAddr(r.h), h |-> [r.h EXCEPT ![NewAddr(r.h)] = Obj("cells", 0, <<>>, r.c)]]
StoreCellSlice(cells, h) ==
  IF cells = <<>> THEN [a |-> 0, h |-> h] ELSE AllocCells(StoreCells(cells, h))

ZeroRow == Row(0, 0, "", "", 0)

\* the returns of prepareRow: Row{} with an error, or the prepared row
FailedRow(why, h) == [why |-> why, row |-> ZeroRow, h |-> h]
PreparedRow(row, ev, sr) ==
  [why |-> "", row |-> Row(ev, sr.a, row.RuleID, row.Comments, row.Number), h |-> sr.h]
CellsOf(prepared) == [i \in DOMAIN prepared |-> prepared[i].c]
FirstError(prepared) == prepared[Min({i \in DOMAIN prepared : prepared[i].why # ""})].why
\* the return cells stored after the evaluation cells se
StoreReturnCells(row, ret, se) == PreparedRow(row, se.a, StoreCellSlice(CellsOf(ret), se.h))
\* prepareRow once its two loops have run over the cells
StorePrepared(row, ev, ret, h) ==
  IF \E i \in DOMAIN ev : ev[i].why # "" THEN FailedRow(FirstError(ev), h)
  ELSE IF \E i \in DOMAIN ret : ret[i].why # "" THEN FailedRow(FirstError(ret), h)
  ELSE StoreReturnCells(row, ret, StoreCellSlice(CellsOf(ev), h))

\* (Row, error) of prepareRow, with the heap after its allocations
prepareRow(row, requireEval, requireReturn, h) ==
  IF requireEval /\ Len(row.EvalCells) = 0 THEN FailedRow("evaluation cell required", h)
  ELSE IF requireReturn /\ Len(row.ReturnCells) = 0 THEN FailedRow("return cell required", h)
  ELSE StorePrepared(row,
         Eager([i \in DOMAIN row.EvalCells |-> PrepareEvalCell(row.EvalCells[i])]),
         Eager([i \in DOMAIN row.ReturnCells |-> PrepareReturnCell(row.ReturnCells[i])]), h)

(* ---------------------------- the table -------------------------------- *)
\* the fields of a DecisionTable that change or configure evaluation
Table(rs, def, mp, nmp, rv) ==
  [rows |-> rs, defaultRow |-> def, matchPolicy |-> mp, noMatchPolicy |-> nmp,
   rowValidation |-> rv]

\* NumberOrNext replacing negative numbers only
NumberOrNextNegative(prepared, rs) ==
  IF prepared.Number < 0 THEN [prepared EXCEPT !.Number = Len(rs) + 1] ELSE prepared

\* prepared.Number of AddRow / SetDefaultRow
NumberOrNext(prepared, rs) ==
  IF prepared.Number <= 0 THEN [prepared EXCEPT !.Number = Len(rs) + 1] ELSE prepared

\* AddRow appending before it looks at the error of prepareRow
AppendPreparedUnchecked(t, h, p) ==
  [why |-> p.why, rows |-> Append(t.rows, NumberOrNext(p.row, t.rows)), h |-> p.h]

\* AddRow after prepareRow returned p
AppendPrepared(t, h, p) ==
  IF p.why # "" THEN [why |-> p.why, rows |-> t.rows, h |-> h]
  ELSE [why |-> "", rows |-> Append(t.rows, NumberOrNext(p.row, t.rows)), h |-> p.h]

\* AddRow preparing the row without the checks of the validation policy
AddRowOpUnvalidated(t, row, h) == AppendPrepared(t, h, prepareRow(row, FALSE, FALSE, h))

\* AddRow: the error ("" when nil), the rows and the heap afterwards
AddRowOp(t, row, h) ==
  AppendPrepared(t, h,
    prepareRow(row, t.rowValidation = "STRICT", t.rowValidation = "STRICT", h))

\* SetDefaultRow storing the row with the number the caller gave
AssignDefaultUnnumbered(t, h, p) ==
  IF p.why # "" THEN [why |-> p.why, defaultRow |-> t.defaultRow, h |-> h]
  ELSE [why |-> "", defaultRow |-> <<p.row>>, h |-> p.h]

\* SetDefaultRow after prepareRow returned p
AssignDefault(t, h, p) ==
  IF p.why # "" THEN [why |-> p.why, defaultRow |-> t.defaultRow, h |-> h]
  ELSE [why |-> "", defaultRow |-> <<NumberOrNext(p.row, t.rows)>>, h |-> p.h]

\* SetDefaultRow: the error ("" when nil), the default row and the heap afterwards
SetDefaultRowOp(t, row, h) ==
  IF t.noMatchPolicy \notin NoMatchPolicies
  THEN [why |-> "policy", defaultRow |-> t.defaultRow, h |-> h]
  ELSE IF Len(row.EvalCells) > 0
  THEN [why |-> "evaluation cells", defaultRow |-> t.defaultRow, h |-> h]
  ELSE AssignDefault(t, h, prepareRow(row, FALSE, TRUE, h))

MatchedRow(values, id, comments, number) ==
  [Values |-> values, RuleID |-> id, Comments |-> comments, RowNumber |-> number]

\* the MatchedRow appended for a stored row whose values m were materialized
EntryOf(r, m) == [row |-> MatchedRow(m.m, r.RuleID, r.Comments, r.Number), h |-> m.h]
MatchedOf(r, h) == EntryOf(r, materializeReturnValues(r, h))

\* what Evaluate returns: the result list, the error ("" when nil), the
\* heap, and the number of rows on which matches was called
Outcome(ms, e, h, n) == [res |-> ms, err |-> e, h |-> h, tested |-> n]

\* one pass through the body of the loop of Evaluate, on row i with the
\* matches ms accumulated so far: done tells whether Evaluate leaves the loop
Visit(done, out) == [done |-> done, out |-> out]

\* AppendMatch without the break of the FIRST policy
AppendMatchNoBreak(t, i, ms, mr) ==
  IF t.matchPolicy = "UNIQUE" /\ Len(ms) + 1 > 1
  THEN Visit(TRUE, Outcome(<<>>, "ambiguous", mr.h, i))
  ELSE Visit(FALSE, Outcome(Append(ms, mr.row), "", mr.h, i))

\* AppendMatch with the UNIQUE test written len(matches) > 2
AppendMatchLateAmbiguity(t, i, ms, mr) ==
  IF t.matchPolicy = "FIRST" THEN Visit(TRUE, Outcome(Append(ms, mr.row), "", mr.h, i))
  ELSE IF t.matchPolicy = "UNIQUE" /\ Len(ms) + 1 > 2
  THEN Visit(TRUE, Outcome(<<>>, "ambiguous", mr.h, i))
  ELSE Visit(FALSE, Outcome(Append(ms, mr.row), "", mr.h, i))

\* AppendMatch returning the accumulated matches together with the error
AppendMatchPartial(t, i, ms, mr) ==
  IF t.matchPolicy = "FIRST" THEN Visit(TRUE, Outcome(Append(ms, mr.row), "", mr.h, i))
  ELSE IF t.matchPolicy = "UNIQUE" /\ Len(ms) + 1 > 1
  THEN Visit(TRUE, Outcome(Append(ms, mr.row), "ambiguous", mr.h, i))
  ELSE Visit(FALSE, Outcome(Append(ms, mr.row), "", mr.h, i))

\* the body of `if match`: the entry mr of row i is appended to ms
AppendMatch(t, i, ms, mr) ==
  IF t.matchPolicy = "FIRST" THEN Visit(TRUE, Outcome(Append(ms, mr.row), "", mr.h, i))
  ELSE IF t.matchPolicy = "UNIQUE" /\ Len(ms) + 1 > 1
  THEN Visit(TRUE, Outcome(<<>>, "ambiguous", mr.h, i))
  ELSE Visit(FALSE, Outcome(Append(ms, mr.row), "", mr.h, i))

\* the body of the loop once row.matches returned m
Verdict(t, i, ms, h, m) ==
  IF m.err THEN Visit(TRUE, Outcome(<<>>, "evaluation", h, i))
  ELSE IF ~m.b THEN Visit(FALSE, Outcome(ms, "", h, i))
  ELSE AppendMatch(t, i, ms, MatchedOf(t.rows[i], h))

VisitRow(t, input, i, ms, h) == Verdict(t, i, ms, h, matches(t.rows[i], input, h))

RECURSIVE ScanRows(_, _, _, _, _)
\* the loop after the visit v of row i
NextRow(t, input, i, v) ==
  IF v.done THEN v.out ELSE ScanRows(t, input, i + 1, v.out.res, v.out.h)
\* the loop of Evaluate over dt.rows from row i on
ScanRows(t, input, i, ms, h) ==
  IF i > Len(t.rows) THEN Outcome(ms, "", h, i - 1)
  ELSE NextRow(t, input, i, VisitRow(t, input, i, ms, h))

\* the single entry of the default row / of the fallback map
DefaultOutcome(mr, n) == Outcome(<<mr.row>>, "", mr.h, n)
FallbackOutcome(c, n) == Outcome(<<MatchedRow(c.m.m, "", "", 0)>>, "", c.h, n)

\* NoMatch looking at the fallback map before the default row
NoMatchFallbackFirst(t, defaultReturn, h, n) ==
  CASE t.noMatchPolicy = "RETURN_DEFAULT" ->
         (IF ~defaultReturn.nil THEN FallbackOutcome(cloneMap(defaultReturn, h), n)
          ELSE IF t.defaultRow # <<>> THEN DefaultOutcome(MatchedOf(t.defaultRow[1], h), n)
          ELSE Outcome(<<>>, "", h, n))
    [] t.noMatchPolicy = "THROW_ERROR" ->
         (IF t.defaultRow # <<>> THEN DefaultOutcome(MatchedOf(t.defaultRow[1], h), n)
          ELSE Outcome(<<>>, "no match", h, n))
    [] OTHER -> Outcome(<<>>, "", h, n)

\* NoMatch with the fallback map honoured under THROW_ERROR as well
NoMatchFallbackOnThrow(t, defaultReturn, h, n) ==
  IF t.defaultRow # <<>> THEN DefaultOutcome(MatchedOf(t.defaultRow[1], h), n)
  ELSE IF ~defaultReturn.nil THEN FallbackOutcome(cloneMap(defaultReturn, h), n)
  ELSE IF t.noMatchPolicy = "THROW_ERROR" THEN Outcome(<<>>, "no match", h, n)
  ELSE Outcome(<<>>, "", h, n)

\* the no-match branch of Evaluate
NoMatch(t, defaultReturn, h, n) ==
  CASE t.noMatchPolicy = "RETURN_DEFAULT" ->
         (IF t.defaultRow # <<>> THEN DefaultOutcome(MatchedOf(t.defaultRow[1], h), n)
          ELSE IF ~defaultReturn.nil THEN FallbackOutcome(cloneMap(defaultReturn, h), n)
          ELSE Outcome(<<>>, "", h, n))
    [] t.noMatchPolicy = "THROW_ERROR" ->
         (IF t.defaultRow # <<>> THEN DefaultOutcome(MatchedOf(t.defaultRow[1], h), n)
          ELSE Outcome(<<>>, "no match", h, n))
    [] OTHER -> Outcome(<<>>, "", h, n)

\* Evaluate after its loop returned s
AfterLoop(t, defaultReturn, s) ==
  IF s.err # "" THEN s
  ELSE IF Len(s.res) = 0 THEN NoMatch(t, defaultReturn, s.h, s.tested)
  ELSE s

EvaluateOp(t, input, defaultReturn, h) ==
  AfterLoop(t, defaultReturn, ScanRows(t, input, 1, <<>>, h))

\* a []Row slice header: own tells whether its backing array is its own or
\* the one dt.rows uses
RowSlice(own, rs) == [own |-> own, rows |-> rs]
NilSlice == RowSlice(TRUE, <<>>)
\* Rows() returning dt.rows itself
RowsOpInternalSlice(t) == RowSlice(FALSE, t.rows)

\* Rows(): a new slice holding copies of the Row values
RowsOp(t) == RowSlice(TRUE, [i \in DOMAIN t.rows |-> t.rows[i]])
\* RowCount()
RowCount(t) == Len(t.rows)

(* ----------------------- regions of the heap --------------------------- *)
HeldObj == Obj("held", 0, <<>>, <<>>)
Region(base, size) == base..(base + size - 1)

\* the allocator works from address base on
Reserve(h, base) == [a \in Addr |-> IF a < base /\ h[a].t = "free" THEN HeldObj ELSE h[a]]
Release(h) == [a \in Addr |-> IF h[a].t = "held" THEN FreeObj ELSE h[a]]
\* the garbage collector has taken the objects of a region
ClearRegion(h, base, size) == [a \in Addr |-> IF a \in Region(base, size) THEN FreeObj ELSE h[a]]

\* a value, an object or a result whose references into the region at `from`
\* follow the objects moved to the region at `to`
MoveVal(v, from, to, size) ==
  IF v.t = "ref" /\ v.n \in Region(from, size) THEN Ref(v.n + to - from) ELSE v
MoveObj(o, from, to, size) ==
  Obj(o.t, o.n, [i \in DOMAIN o.l |-> MoveVal(o.l[i], from, to, size)], o.c)
MoveResult(ms, from, to, size) ==
  [i \in DOMAIN ms |->
     [ms[i] EXCEPT !.Values = [k \in DOMAIN ms[i].Values |->
                                 MoveVal(ms[i].Values[k], from, to, size)]]]
MoveRegion(h, from, to, size) ==
  [a \in Addr |->
     IF a \in Region(to, size) THEN MoveObj(h[a - to + from], from, to, size)
     ELSE IF a \in Region(from, size) THEN FreeObj
     ELSE h[a]]

(* ----------------------- reachability in the heap ---------------------- *)
AddrOf(v) == IF v.t = "ref" THEN v.n ELSE 0
AddrsOfSeq(l) == {AddrOf(l[i]) : i \in DOMAIN l}
AddrsOfCells(c) == {AddrOf(c[i].Value) : i \in DOMAIN c}
AddrsOfMap(m) == {AddrOf(m[k]) : k \in DOMAIN m}
AddrsOfResult(ms) == UNION {AddrsOfMap(ms[i].Values) : i \in DOMAIN ms}
ChildAddrs(a, h) == AddrsOfSeq(h[a].l) \cup AddrsOfCells(h[a].c)

RECURSIVE Closure(_, _)
Closure(S, h) ==
  LET n == S \cup (UNION {ChildAddrs(a, h) : a \in S} \ {0})
  IN IF n = S THEN S ELSE Closure(n, h)

\* the objects reachable from the addresses S (0 is no address)
Reach(S, h) == Closure(S \ {0}, h)

(* ------------------------------ state ---------------------------------- *)
VARIABLES
  rows,           \* dt.rows
  defaultRow,     \* dt.defaultRow: <<>> when nil, else <<row>>
  matchPolicy,    \* dt.matchPolicy
  noMatchPolicy,  \* dt.noMatchPolicy
  rowValidation,  \* dt.rowValidation
  heap,           \* the objects the table and its callers hold
  fallback,       \* the caller's fallback map
  res,            \* the result list the latest call returned (Evaluate only)
  err,            \* the error the latest call returned ("" when nil)
  prev,           \* an earlier result list the caller still holds
  handle,         \* the slice the caller got from Rows()
  last,           \* the latest call and its arguments
  mutations,      \* caller-side mutations performed so far
  probe,          \* a condition cell taken through preparation and evaluation
  calls,          \* the Evaluate calls in progress, one per goroutine
  conv            \* a raw value taken through coercion

vars == <<rows, defaultRow, matchPolicy, noMatchPolicy, rowValidation, heap,
          fallback, res, err, prev, handle, last, mutations, probe, calls, conv>>

dt == Table(rows, defaultRow, matchPolicy, noMatchPolicy, rowValidation)

\* a cell and an input at stage "drawn", the cell prepared as prepareRow
\* prepares it ("stored" or "rejected"), its verdict on the input ("evaluated")
Probe(cell, input, stage, prepared, verdict) ==
  [cell |-> cell, input |-> input, stage |-> stage, prepared |-> prepared, verdict |-> verdict]
NoProbe == Probe(RawEval("", "", Nil), <<>>, "", [why |-> "", c |-> RawEval("", "", Nil)], Res(FALSE))

\* an Evaluate call of a goroutine: "idle" before it starts, "scan" in the
\* loop with row i next and the matches ms, "after" once the loop is left,
\* "done" when it has returned ms and err
EvalCall(pc, input, fb, i, ms, e) ==
  [pc |-> pc, input |-> input, fb |-> fb, i |-> i, ms |-> ms, err |-> e]
Goroutines == 1..2
NoCalls == [g \in Goroutines |-> EvalCall("idle", <<>>, FALSE, 0, <<>>, "")]

\* a raw value and a data type at stage "drawn", the outcome of the coercion
\* at stage "coerced"
Conv(dtype, raw, stage, out) == [dt |-> dtype, raw |-> raw, stage |-> stage, out |-> out]
NoConv == Conv("", Nil, "", Err)

NoTarget == [which |-> "", i |-> 0, col |-> "", j |-> 0]
NoInput == <<>>
Call(op, why, id, input, fb, tested, target) ==
  [op |-> op, why |-> why, id |-> id, input |-> input, fb |-> fb,
   tested |-> tested, target |-> target]


(* ------------------------------ actions -------------------------------- *)
\* NewDecisionTable with the three policies as options
NewDecisionTable(mp, nmp, rv) ==
  /\ rows = <<>>
  /\ defaultRow = <<>>
  /\ matchPolicy = mp
  /\ noMatchPolicy = nmp
  /\ rowValidation = rv
  /\ res = <<>>
  /\ err = ""
  /\ prev = <<>>
  /\ handle = NilSlice
  /\ last = Call("NewDecisionTable", "", "", NoInput, FALSE, 0, NoTarget)
  /\ mutations = 0

Init ==
  /\ \E mp \in MatchPolicies, nmp \in NoMatchPolicies, rv \in RowValidationPolicies :
       NewDecisionTable(mp, nmp, rv)
  /\ heap = EmptyHeap
  /\ fallback = GoMap(FallbackScalars)
  /\ probe = NoProbe
  /\ calls = NoCalls
  /\ conv = NoConv

Configuration == UNCHANGED <<matchPolicy, noMatchPolicy, rowValidation>>

\* the heap once the latest result list is dropped
DropResult(h) == ClearRegion(h, ResBase, ResultObjs)

AddRowBounded(row, max) ==
  /\ Len(rows) < max
  /\ \E r \in {AddRowOp(dt, row, Reserve(heap, RowBase(Len(rows) + 1)))} :
        /\ rows' = r.rows
        /\ heap' = DropResult(Release(r.h))
        /\ err' = r.why
        /\ last' = Call("AddRow", r.why, row.RuleID, NoInput, FALSE, 0, NoTarget)
  /\ res' = <<>>
  /\ Configuration
  /\ UNCHANGED <<defaultRow, fallback, prev, handle, mutations, probe, calls, conv>>

AddRow(row) == AddRowBounded(row, MaxRows)

\* the objects of the default row being replaced are garbage unless a result
\* the caller holds still refers to them
DefaultGarbage(h) ==
  IF Reach(AddrsOfResult(prev), h) \cap Region(DefaultBase, RowObjs) = {}
  THEN ClearRegion(h, DefaultBase, RowObjs)
  ELSE h

SetDefaultRow(row) ==
  /\ \E r \in {SetDefaultRowOp(dt, row, Reserve(DefaultGarbage(heap), DefaultBase))} :
        /\ defaultRow' = r.defaultRow
        /\ heap' = DropResult(IF r.why = "" THEN Release(r.h) ELSE heap)
        /\ err' = r.why
        /\ last' = Call("SetDefaultRow", r.why, row.RuleID, NoInput, FALSE, 0, NoTarget)
  /\ res' = <<>>
  /\ Configuration
  /\ UNCHANGED <<rows, fallback, prev, handle, mutations, probe, calls, conv>>

Evaluate(input, withFallback) ==
  /\ \E r \in {EvaluateOp(dt, input, IF withFallback THEN fallback ELSE NilMap,
                           Reserve(DropResult(heap), ResBase))} :
        /\ res' = r.res
        /\ err' = r.err
        /\ heap' = IF r.err = "" THEN Release(r.h) ELSE DropResult(heap)
        /\ last' = Call("Evaluate", r.err, "", input, withFallback, r.tested, NoTarget)
  /\ Configuration
  /\ UNCHANGED <<rows, defaultRow, fallback, prev, handle, mutations, probe, calls, conv>>

RowCountCall ==
  /\ err' = ""
  /\ last' = Call("RowCount", "", "", NoInput, FALSE, RowCount(dt), NoTarget)
  /\ res' = <<>>
  /\ heap' = DropResult(heap)
  /\ Configuration
  /\ UNCHANGED <<rows, defaultRow, fallback, prev, handle, mutations, probe, calls, conv>>

Next ==
  \/ \E row \in TableRows : AddRow(row)
  \/ SetDefaultRow(DefaultMinor)
  \/ \E input \in Inputs, withFallback \in BOOLEAN : Evaluate(input, withFallback)

Spec == Init /\ [][Next]_vars

(* --------------------- what Evaluate has to return --------------------- *)
Evaluated == last.op = "Evaluate"

\* the verdict of rows[i] on the input of the latest call
Match(i) == matches(rows[i], last.input, heap)
MatchingRows == {i \in DOMAIN rows : ~Match(i).err /\ Match(i).b}
FailingRows == {i \in DOMAIN rows : Match(i).err}
\* no row up to row n fails to evaluate
NoFailureUpTo(n) == \A i \in FailingRows : i > n

RECURSIVE Sorted(_)
Sorted(S) == IF S = {} THEN <<>> ELSE <<Min(S)>> \o Sorted(S \ {Min(S)})

\* an entry with the values its references denote
DeepEntry(m) == [m EXCEPT !.Values = [k \in DOMAIN m.Values |-> Load(m.Values[k], heap)]]
DeepList(ms) == [i \in DOMAIN ms |-> DeepEntry(ms[i])]
DeepRes == DeepList(res)

\* the return values of a stored row, by column
ReturnOf(r) ==
  LET cells == CellsAt(r.ReturnCells, heap)
  IN [c \in {cells[j].Column : j \in DOMAIN cells} |->
        Load(cells[Max({j \in DOMAIN cells : cells[j].Column = c})].Value, heap)]
\* the entry a stored row is to produce
RowEntry(r) == MatchedRow(ReturnOf(r), r.RuleID, r.Comments, r.Number)
\* the entry the caller's fallback map is to produce
FallbackEntry ==
  MatchedRow([k \in DOMAIN fallback.m |-> Load(fallback.m[k], heap)], "", "", 0)

FirstMatch == Min(MatchingRows)
SecondMatch == Min(MatchingRows \ {FirstMatch})
NothingMatchesOrFails == MatchingRows = {} /\ FailingRows = {}

\* C1 (as stated): under FIRST the result is exactly the first row in
\* declaration order that matches the input, or is empty if no row matches.
C1_Original ==
  (Evaluated /\ matchPolicy = "FIRST") =>
     /\ err = ""
     /\ DeepRes = IF MatchingRows # {} THEN <<RowEntry(rows[FirstMatch])>> ELSE <<>>

\* C1 (amended): under FIRST, when some row matches and no row declared
\* before the first matching row fails to evaluate, the result is exactly
\* that row (values, rule id, comment, number); when no row matches and none
\* fails, the result is empty only if there is no default row and no
\* fallback map under RETURN_DEFAULT, and the call fails under THROW_ERROR
\* without a default row.
C1_FirstMatch ==
  (Evaluated /\ matchPolicy = "FIRST") =>
     /\ (MatchingRows # {} /\ NoFailureUpTo(FirstMatch)) =>
          (err = "" /\ DeepRes = <<RowEntry(rows[FirstMatch])>>)
     /\ (NothingMatchesOrFails /\ err = "" /\ res = <<>>) =>
          (defaultRow = <<>> /\ noMatchPolicy = "RETURN_DEFAULT" /\ ~last.fb)
     /\ (NothingMatchesOrFails /\ err # "") =>
          (defaultRow = <<>> /\ noMatchPolicy = "THROW_ERROR")

\* FIRST returned a row that is not the first one declared, while a later
\* row matches as well
C1_Witness ==
  /\ Evaluated /\ matchPolicy = "FIRST" /\ err = ""
  /\ Cardinality(MatchingRows) >= 2
  /\ FirstMatch > 1
  /\ Len(res) = 1

\* C2: under ALL, whenever rows match, the RowNumber sequence of the result
\* is strictly increasing and lists exactly the matching rows in insertion
\* order, whatever row numbers the caller supplied.
C2_Original ==
  (Evaluated /\ matchPolicy = "ALL" /\ err = "" /\ MatchingRows # {}) =>
     /\ [i \in DOMAIN res |-> res[i].RowNumber] =
          [i \in DOMAIN Sorted(MatchingRows) |-> rows[Sorted(MatchingRows)[i]].Number]
     /\ \A i \in DOMAIN res : \A j \in DOMAIN res :
          i < j => res[i].RowNumber < res[j].RowNumber

\* C3 (as stated): under UNIQUE, Evaluate fails iff at least two rows match,
\* returns exactly one entry iff exactly one row matches, and the failure is
\* raised at the second match, before any later row is tested.
C3_Original ==
  (Evaluated /\ matchPolicy = "UNIQUE") =>
     /\ (err # "") <=> (Cardinality(MatchingRows) >= 2)
     /\ (err = "" /\ Len(res) = 1) <=> (Cardinality(MatchingRows) = 1)
     /\ (Cardinality(MatchingRows) >= 2) => (last.tested = SecondMatch)

\* C3 (amended): under UNIQUE, Evaluate fails with the ambiguity error iff a
\* second row matches before any row fails to evaluate, and then at that
\* second match, before any later row is tested; any other failure is a row
\* evaluation error or the no-match error; when exactly one row matches and
\* no row fails to evaluate, the result is exactly that row's entry.
C3_Unique ==
  (Evaluated /\ matchPolicy = "UNIQUE") =>
     /\ (err = "ambiguous") <=>
          (Cardinality(MatchingRows) >= 2 /\ NoFailureUpTo(SecondMatch))
     /\ (err = "ambiguous") => (last.tested = SecondMatch /\ res = <<>>)
     /\ (err # "" /\ err # "ambiguous") =>
          \/ err = "evaluation" /\ FailingRows # {}
          \/ err = "no match" /\ NothingMatchesOrFails
     /\ (Cardinality(MatchingRows) = 1 /\ FailingRows = {}) =>
          (err = "" /\ DeepRes = <<RowEntry(rows[FirstMatch])>>)

\* UNIQUE failed at a second match with a later row left untested
C3_Witness ==
  /\ Evaluated /\ matchPolicy = "UNIQUE" /\ err = "ambiguous"
  /\ last.tested = SecondMatch
  /\ last.tested < Len(rows)

C5_Original ==
  (Evaluated /\ noMatchPolicy = "THROW_ERROR" /\ MatchingRows = {}) =>
     IF defaultRow # <<>>
     THEN err = "" /\ DeepRes = <<RowEntry(defaultRow[1])>>
     ELSE err = "no match" /\ res = <<>>

\* C5 (amended): under THROW_ERROR, when no row matches and no row
\* evaluation fails, Evaluate returns the default row's output as the single
\* entry if a default row is set and otherwise fails with the no-match
\* error; no entry of any result under this policy is the fallback map's.
C5_ThrowError ==
  (Evaluated /\ noMatchPolicy = "THROW_ERROR") =>
     /\ NothingMatchesOrFails =>
          IF defaultRow # <<>>
          THEN err = "" /\ DeepRes = <<RowEntry(defaultRow[1])>>
          ELSE err = "no match" /\ res = <<>>
     /\ \A i \in DOMAIN res : res[i].RowNumber # 0 /\ DeepRes[i] # FallbackEntry

\* the no-match error was returned although the caller passed a fallback map
C5_Witness ==
  /\ Evaluated /\ noMatchPolicy = "THROW_ERROR" /\ NothingMatchesOrFails
  /\ rows # <<>> /\ defaultRow = <<>> /\ last.fb
  /\ err = "no match"

\* C10: whenever Evaluate returns an error (row evaluation error, UNIQUE
\* ambiguity, no-match error) the returned result list is empty, also when
\* earlier rows had matched and been accumulated.
C10_NoPartialResult == (Evaluated /\ err # "") => res = <<>>

\* a row evaluation failed after an earlier row had matched
C10_Witness ==
  /\ Evaluated /\ err = "evaluation"
  /\ \E i \in MatchingRows : \E j \in FailingRows : i < j

\* C11 (as stated): after any sequence of AddRow and SetDefaultRow calls the
\* rule ids of the stored rows and of the default row are pairwise distinct
\* (a registration that repeats a stored rule id fails).
C11_Original ==
  /\ \A i, j \in DOMAIN rows : i # j => rows[i].RuleID # rows[j].RuleID
  /\ \A i \in DOMAIN rows : \A d \in DOMAIN defaultRow : defaultRow[d].RuleID # rows[i].RuleID

\* Evaluate returned the entry made of the caller's fallback map
FallbackReturned ==
  /\ Evaluated /\ err = ""
  /\ NothingMatchesOrFails
  /\ noMatchPolicy = "RETURN_DEFAULT" /\ defaultRow = <<>>
  /\ last.fb /\ ~fallback.nil

\* C20: every stored row and the default row carry a number of at least 1,
\* and an entry of a result of Evaluate has RowNumber 0 if and only if it is
\* the entry made of the caller-supplied fallback map.
C20_RowNumbers ==
  /\ \A i \in DOMAIN rows : rows[i].Number >= 1
  /\ \A d \in DOMAIN defaultRow : defaultRow[d].Number >= 1
  /\ Evaluated => \A k \in DOMAIN res : (res[k].RowNumber = 0) <=> FallbackReturned
  /\ FallbackReturned => Len(res) = 1 /\ res[1].RowNumber = 0

\* the fallback entry was returned by a table holding a row the caller had
\* left unnumbered
C20_Witness ==
  /\ FallbackReturned /\ Len(res) = 1 /\ res[1].RowNumber = 0
  /\ \E i \in DOMAIN rows : rows[i].RuleID = RowAdult.RuleID /\ RowAdult.Number = 0

\* Evaluate returned the entry of the configured default row
DefaultReturned ==
  /\ Evaluated /\ err = ""
  /\ MatchingRows = {} /\ defaultRow # <<>>
  /\ Len(res) = 1

\* C21 (as stated): whenever Evaluate returns the default row, registered
\* without a number, the RowNumber of the entry is RowCount()+1, in whatever
\* order AddRow and SetDefaultRow were called.
C21_Original == DefaultReturned => res[1].RowNumber = RowCount(dt) + 1

\* C21 (amended): a default row registered without a number is numbered one
\* more than the rows stored when SetDefaultRow is called, no later call
\* changes that number, and whenever Evaluate returns the default row the
\* RowNumber of the entry is that number: it is RowCount()+1 as long as no
\* AddRow has succeeded after the SetDefaultRow.
C21_DefaultNumber ==
  /\ [](DefaultReturned => res[1].RowNumber = defaultRow[1].Number)
  /\ [][
         /\ (last'.op = "SetDefaultRow" /\ err' = "") =>
             /\ defaultRow'[1].Number = RowCount(dt) + 1
             /\ RowCount(dt)' = RowCount(dt)
         /\ (last'.op # "SetDefaultRow" /\ defaultRow # <<>>) =>
             /\ defaultRow' # <<>>
             /\ defaultRow'[1].Number = defaultRow[1].Number
         /\ (last'.op = "Evaluate" /\ defaultRow # <<>>
               /\ defaultRow[1].Number = RowCount(dt) + 1) =>
             defaultRow'[1].Number = RowCount(dt)' + 1
       ]_vars

\* the default row, set after two rows, was returned with the number 3
C21_Witness ==
  /\ DefaultReturned /\ RowCount(dt) = 2
  /\ res[1].RowNumber = RowCount(dt) + 1

(* ------------------------ failing registrations ------------------------ *)
NextBuild ==
  \/ \E row \in TableRows \cup BadRows : AddRow(row)
  \/ \E row \in TableDefaultRows : SetDefaultRow(row)
  \/ RowCountCall

SpecBuild == Init /\ [][NextBuild]_vars

\* the cells of a cell slice and a stored row with the values their
\* references denote
DeepCells(a) ==
  [j \in DOMAIN CellsAt(a, heap) |->
     [CellsAt(a, heap)[j] EXCEPT !.Value = Load(CellsAt(a, heap)[j].Value, heap)]]
DeepRow(r) == [r EXCEPT !.EvalCells = DeepCells(r.EvalCells),
                        !.ReturnCells = DeepCells(r.ReturnCells)]
DeepRows == [i \in DOMAIN rows |-> DeepRow(rows[i])]
DeepDefault == [i \in DOMAIN defaultRow |-> DeepRow(defaultRow[i])]

\* C9: a failing AddRow or SetDefaultRow leaves the row list, RowCount,
\* every stored row and the default row exactly as before the call.
C9_FailureLeavesTable ==
  [][(last'.op \in {"AddRow", "SetDefaultRow"} /\ err' # "") =>
       /\ rows' = rows
       /\ defaultRow' = defaultRow
       /\ RowCount(dt)' = RowCount(dt)
       /\ DeepRows' = DeepRows
       /\ DeepDefault' = DeepDefault]_vars

\* a registration failed on a table that holds rows and a default row
C9_Witness ==
  /\ last.op \in {"AddRow", "SetDefaultRow"}
  /\ err # ""
  /\ rows # <<>>
  /\ defaultRow # <<>>

\* the Row the caller passed to the latest registration
Registered == CHOOSE r \in AllRows : r.RuleID = last.id
\* every cell of the row names a column of its role and holds a value of
\* the column's type
SoundCells(r) ==
  /\ \A i \in DOMAIN r.EvalCells : PrepareEvalCell(r.EvalCells[i]).why = ""
  /\ \A i \in DOMAIN r.ReturnCells : PrepareReturnCell(r.ReturnCells[i]).why = ""
EmptyCellSet(r) == Len(r.EvalCells) = 0 \/ Len(r.ReturnCells) = 0

\* C19 (as stated): under STRICT AddRow rejects a row with zero condition
\* cells or zero return cells; under LENIENT neither AddRow nor SetDefaultRow
\* rejects a row for an empty cell set.
C19_Original ==
  /\ (last.op = "AddRow" /\ rowValidation = "STRICT" /\ EmptyCellSet(Registered)) => err # ""
  /\ (last.op = "AddRow" /\ rowValidation = "LENIENT" /\ SoundCells(Registered)) => err = ""
  /\ (last.op = "SetDefaultRow" /\ rowValidation = "LENIENT" /\ SoundCells(Registered)
        /\ Len(Registered.EvalCells) = 0) => err = ""

\* C19 (amended): under STRICT AddRow rejects a row with zero condition cells
\* or zero return cells, under LENIENT AddRow accepts it; SetDefaultRow
\* rejects condition cells and, under either policy, a row with zero return
\* cells.
C19_RowValidation ==
  /\ (last.op = "AddRow" /\ rowValidation = "STRICT" /\ EmptyCellSet(Registered)) =>
        err \in {"evaluation cell required", "return cell required"}
  /\ (last.op = "AddRow" /\ rowValidation = "LENIENT" /\ SoundCells(Registered)) => err = ""
  /\ (last.op = "SetDefaultRow" /\ Len(Registered.EvalCells) > 0) => err = "evaluation cells"
  /\ (last.op = "SetDefaultRow" /\ Len(Registered.EvalCells) = 0
        /\ Len(Registered.ReturnCells) = 0) => err = "return cell required"
  /\ (last.op = "SetDefaultRow" /\ Len(Registered.EvalCells) = 0
        /\ Len(Registered.ReturnCells) > 0 /\ SoundCells(Registered)) => err = ""

\* a LENIENT table that took a row without condition cells and one without
\* return cells has refused a default row without return cells
C19_Witness ==
  /\ last.op = "SetDefaultRow" /\ rowValidation = "LENIENT"
  /\ Registered = DefaultNoReturn /\ err = "return cell required"
  /\ \E i, j \in DOMAIN rows : rows[i].EvalCells = 0 /\ rows[j].ReturnCells = 0

(* ------------------------- callers that mutate ------------------------- *)
InitIso ==
  /\ NewDecisionTable("ALL", "RETURN_DEFAULT", "STRICT")
  /\ \E m \in FallbackMaps : \E r \in {StoreEntries(m, DOMAIN m, <<>>, EmptyHeap)} :
       /\ fallback = GoMap(r.m)
       /\ heap = r.h
  /\ probe = NoProbe
  /\ calls = NoCalls
  /\ conv = NoConv

\* the caller keeps the result list of the latest Evaluate
Retain ==
  /\ res # <<>>
  /\ prev' = MoveResult(res, ResBase, PrevBase, ResultObjs)
  /\ heap' = MoveRegion(heap, ResBase, PrevBase, ResultObjs)
  /\ res' = <<>>
  /\ last' = Call("Retain", "", "", NoInput, FALSE, 0, NoTarget)
  /\ Configuration
  /\ UNCHANGED <<rows, defaultRow, fallback, err, handle, mutations, probe, calls, conv>>

RowsCall ==
  /\ handle' = RowsOp(dt)
  /\ err' = ""
  /\ last' = Call("Rows", "", "", NoInput, FALSE, 0, NoTarget)
  /\ Configuration
  /\ UNCHANGED <<rows, defaultRow, fallback, heap, res, prev, mutations, probe, calls, conv>>

\* a write through a pointer or into a slice element: SetInt64 on a
\* big.Float, an assignment to element 0 of a slice
WriteObject(h, a) ==
  IF h[a].t = "dec" THEN [h EXCEPT ![a].n = h[a].n + 1]
  ELSE IF h[a].l # <<>> THEN [h EXCEPT ![a].l[1] = Str("changed")]
  ELSE h

Mutation(op, target) ==
  /\ mutations < MaxMutations
  /\ mutations' = mutations + 1
  /\ last' = Call(op, "", "", NoInput, FALSE, 0, target)
  /\ Configuration

\* the caller writes into a value of entry i of a result list it holds
MutateResult(which, i, col) ==
  LET ms == IF which = "res" THEN res ELSE prev
  IN /\ i \in DOMAIN ms
     /\ col \in DOMAIN ms[i].Values
     /\ ms[i].Values[col].t = "ref"
     /\ \E a \in Reach({ms[i].Values[col].n}, heap) :
          /\ heap' = WriteObject(heap, a)
          /\ Mutation("MutateResult", [which |-> which, i |-> i, col |-> col, j |-> a])
     /\ UNCHANGED <<rows, defaultRow, fallback, res, err, prev, handle, probe, calls, conv>>

\* the caller writes into a value of the fallback map it passed
MutateFallback(col) ==
  /\ ~fallback.nil
  /\ col \in DOMAIN fallback.m
  /\ fallback.m[col].t = "ref"
  /\ \E a \in Reach({fallback.m[col].n}, heap) :
       /\ heap' = WriteObject(heap, a)
       /\ Mutation("MutateFallback", [which |-> "fallback", i |-> 0, col |-> col, j |-> a])
  /\ UNCHANGED <<rows, defaultRow, fallback, res, err, prev, handle, probe, calls, conv>>

\* rows[i] = Row{}: an element of the slice Rows() returned is replaced
ReplaceRow(i) ==
  /\ i \in DOMAIN handle.rows
  /\ handle' = [handle EXCEPT !.rows[i] = ZeroRow]
  /\ rows' = IF handle.own \/ i \notin DOMAIN rows THEN rows ELSE [rows EXCEPT ![i] = ZeroRow]
  /\ Mutation("ReplaceRow", [which |-> "handle", i |-> i, col |-> "", j |-> 0])
  /\ UNCHANGED <<defaultRow, fallback, heap, res, err, prev, probe, calls, conv>>

\* rows[i].ReturnCells[j].Value = "changed", or the same on EvalCells
WriteCell(i, which, j) ==
  /\ i \in DOMAIN handle.rows
  /\ LET a == IF which = "EvalCells" THEN handle.rows[i].EvalCells
              ELSE handle.rows[i].ReturnCells
     IN /\ a # 0
        /\ j \in DOMAIN heap[a].c
        /\ heap' = [heap EXCEPT ![a].c[j].Value = Str("changed")]
  /\ Mutation("WriteCell", [which |-> which, i |-> i, col |-> "", j |-> j])
  /\ UNCHANGED <<rows, defaultRow, fallback, res, err, prev, handle, probe, calls, conv>>

\* a write into the big.Float or the list a cell of rows[i] holds
WriteCellValue(i, which, j) ==
  /\ i \in DOMAIN handle.rows
  /\ LET a == IF which = "EvalCells" THEN handle.rows[i].EvalCells
              ELSE handle.rows[i].ReturnCells
     IN /\ a # 0
        /\ j \in DOMAIN heap[a].c
        /\ heap[a].c[j].Value.t = "ref"
        /\ heap' = WriteObject(heap, heap[a].c[j].Value.n)
  /\ Mutation("WriteCellValue", [which |-> which, i |-> i, col |-> "", j |-> j])
  /\ UNCHANGED <<rows, defaultRow, fallback, res, err, prev, handle, probe, calls, conv>>

Columns == DOMAIN conditionColumns \cup DOMAIN outputColumns
CellFields == {"EvalCells", "ReturnCells"}

\* callers that write into the results they were given and into the
\* fallback map they passed
NextIso ==
  \/ \E row \in IsoRows : AddRowBounded(row, MaxIsoRows)
  \/ \E row \in IsoDefaultRows : SetDefaultRow(row)
  \/ \E input \in IsoInputs, withFallback \in BOOLEAN : Evaluate(input, withFallback)
  \/ Retain
  \/ \E which \in {"res", "prev"}, i \in 1..RowsCap, col \in Columns : MutateResult(which, i, col)
  \/ \E col \in Columns : MutateFallback(col)

SpecIso == InitIso /\ [][NextIso]_vars

Held(which) == IF which = "res" THEN res ELSE prev
\* every entry the caller holds but entry i of the list `which`
OtherEntries(which, i) ==
  <<[j \in DOMAIN res |-> IF which = "res" /\ j = i THEN <<>> ELSE DeepEntry(res[j])],
    [j \in DOMAIN prev |-> IF which = "prev" /\ j = i THEN <<>> ELSE DeepEntry(prev[j])]>>
ObjectsOf(m) == Reach(AddrsOfMap(m.Values), heap)
DeepFallback == [k \in DOMAIN fallback.m |-> Load(fallback.m[k], heap)]

\* two unmodified entries materialized from the same stored row are equal in
\* value and share no object
TwiceEqual ==
  \A i \in DOMAIN res : \A j \in DOMAIN prev :
    (/\ mutations = 0
     /\ res[i].RowNumber # 0
     /\ res[i].RuleID = prev[j].RuleID
     /\ res[i].RowNumber = prev[j].RowNumber) =>
       /\ DeepEntry(res[i]) = DeepEntry(prev[j])
       /\ ObjectsOf(res[i]) \cap ObjectsOf(prev[j]) = {}

\* C6: two materializations of a stored row are value-equal and
\* reference-independent for Decimal and List columns: a write into a value
\* of one MatchedRow changes neither the stored rows nor any other entry
\* returned by an earlier or later Evaluate.
C6_Independent ==
  /\ []TwiceEqual
  /\ [][\A w \in {"res", "prev"} : \A i \in 1..RowsCap :
          (/\ last'.op = "MutateResult"
           /\ last'.target.which = w
           /\ last'.target.i = i
           /\ Held(w)[i].RowNumber # 0) =>
             /\ DeepRows' = DeepRows
             /\ DeepDefault' = DeepDefault
             /\ OtherEntries(w, i)' = OtherEntries(w, i)]_vars

\* the caller wrote into the latest result while it holds an earlier result
\* materialized from the same stored row
C6_Witness ==
  /\ last.op = "MutateResult"
  /\ last.target.which = "res"
  /\ res[last.target.i].RowNumber # 0
  /\ \E j \in DOMAIN prev :
       /\ prev[j].RuleID = res[last.target.i].RuleID
       /\ prev[j].RowNumber = res[last.target.i].RowNumber
       /\ DeepEntry(prev[j]) # DeepEntry(res[last.target.i])

\* C8: the Values returned for the fallback map are a deep clone for every
\* value shape: a write into the returned Values does not change the
\* caller's map or its values, and a write into the caller's map afterwards
\* does not change the returned Values.
C8_Original ==
  [][/\ \A w \in {"res", "prev"} : \A i \in 1..RowsCap :
          (/\ last'.op = "MutateResult"
           /\ last'.target.which = w
           /\ last'.target.i = i
           /\ Held(w)[i].RowNumber = 0) =>
             DeepFallback' = DeepFallback
     /\ (last'.op = "MutateFallback") =>
          (DeepList(res)' = DeepList(res) /\ DeepList(prev)' = DeepList(prev))]_vars

\* callers that write through the slice Rows() returned
InitRows ==
  /\ NewDecisionTable("ALL", "RETURN_DEFAULT", "STRICT")
  /\ heap = EmptyHeap
  /\ fallback = GoMap(FallbackScalars)
  /\ probe = NoProbe
  /\ calls = NoCalls
  /\ conv = NoConv

NextRows ==
  \/ \E row \in {RowAdult, RowUS} : AddRowBounded(row, MaxIsoRows)
  \/ \E row \in IsoDefaultRows : SetDefaultRow(row)
  \/ \E input \in IsoInputs : Evaluate(input, FALSE)
  \/ RowsCall
  \/ \E i \in 1..RowsCap : ReplaceRow(i)
  \/ \E i \in 1..RowsCap, which \in CellFields, j \in 1..EntryObjs : WriteCell(i, which, j)
  \/ \E i \in 1..RowsCap, which \in CellFields, j \in 1..EntryObjs : WriteCellValue(i, which, j)

SpecRows == InitRows /\ [][NextRows]_vars

\* C7 (as stated): no mutation through the rows Rows() returned (replacing a
\* row, changing a row's cells or the values they hold) changes the stored
\* rows.
C7_Original ==
  [][(last'.op \in {"ReplaceRow", "WriteCell", "WriteCellValue"}) =>
       (rows' = rows /\ DeepRows' = DeepRows)]_vars

\* C7 (amended): Rows() returns a copy of the row slice: replacing an
\* element of the returned slice changes neither the stored rows nor what
\* they hold.
C7_SliceCopy ==
  [][(last'.op = "ReplaceRow") => (rows' = rows /\ DeepRows' = DeepRows)]_vars

\* the caller replaced a row of the returned slice that the table still holds
C7_Witness ==
  /\ last.op = "ReplaceRow"
  /\ last.target.i \in DOMAIN rows
  /\ handle.rows[last.target.i] = ZeroRow
  /\ rows[last.target.i] # ZeroRow
(* ------------------- one condition cell, one input --------------------- *)
\* a cell and an input for its column are drawn; the table itself stays empty
InitCells ==
  /\ NewDecisionTable("ALL", "THROW_ERROR", "STRICT")
  /\ heap = EmptyHeap
  /\ fallback = NilMap
  /\ \E cell \in Cells : \E input \in CellInputs(cell.Column) :
       probe = Probe(cell, input, "drawn", [why |-> "", c |-> cell], Res(FALSE))
  /\ calls = NoCalls
  /\ conv = NoConv

Table0 == <<rows, defaultRow, matchPolicy, noMatchPolicy, rowValidation, heap,
            fallback, res, err, prev, handle, last, mutations, calls, conv>>

\* the iteration of the first loop of prepareRow on the cell
PrepareCell ==
  /\ probe.stage = "drawn"
  /\ \E p \in {PrepareEvalCell(probe.cell)} :
       probe' = [probe EXCEPT !.stage = IF p.why = "" THEN "stored" ELSE "rejected",
                              !.prepared = p]
  /\ UNCHANGED Table0

\* the iteration of the loop of Row.matches on the prepared cell
EvaluateCell ==
  /\ probe.stage = "stored"
  /\ probe' = [probe EXCEPT !.stage = "evaluated",
                            !.verdict = CellVerdicts(<<probe.prepared.c>>, probe.input, heap)[1]]
  /\ UNCHANGED Table0

NextCells == PrepareCell \/ EvaluateCell

SpecCells == InitCells /\ [][NextCells]_vars

\* the cell under test, the type of its column and the value the input
\* holds for it (nil when the input lacks the column)
ProbeType == conditionColumns[probe.cell.Column]
ProbeOperator == probe.cell.Operator
Actual == InputGet(probe.input, probe.cell.Column)
Accepted == probe.stage \in {"stored", "evaluated"}
Evaluation == probe.stage = "evaluated"
\* the expected value stored in the prepared cell
Expected == probe.prepared.c.Value

\* C12 (as stated): for every operator whose expected side is a collection,
\* the expected list stored for an accepted cell holds no two elements that
\* are equal under the element type of the column.
C12_Original ==
  (Accepted /\ requiresCollectionValue(ProbeOperator)) =>
     \A i, j \in DOMAIN Expected.l :
        i # j => ~equals(elementDataType(ProbeType), Expected.l[i], Expected.l[j]).b

Ordering == {"GT", "GT_EQ", "LT", "LT_EQ"}
OrderedTypes == {"INTEGER", "DECIMAL", "DATE", "DATETIME"}
\* the operator of the cell is not a defined operator, or is an ordering
\* operator on a column whose type has no ordering
RuleDefect ==
  \/ ProbeOperator \notin OperatorTypes
  \/ ProbeOperator \in Ordering /\ ProbeType \notin OrderedTypes
\* the input value can be brought to the type of the column
ActualCoercible ==
  IF expectsActualCollection(ProbeOperator)
  THEN sanitizeActualCollection(ProbeType, Actual).ok
  ELSE sanitizeActualValue(ProbeType, Actual).ok

\* C13 (as stated): a condition cell whose operator is undefined, or not
\* supported for the type of its column, is rejected when the row is
\* prepared, so no accepted cell fails at evaluation time on an input value
\* of the column's type because of its operator.
C13_Original ==
  /\ (probe.stage # "drawn" /\ RuleDefect) => probe.stage = "rejected"
  /\ (Evaluation /\ RuleDefect /\ ActualCoercible) => ~probe.verdict.err

\* C14 (as stated): an ordering operator on a STRING, BOOLEAN or list column
\* fails with an error for every actual value, a null or absent one included.
C14_Original ==
  (Evaluation /\ ProbeOperator \in Ordering /\ ProbeType \notin OrderedTypes) =>
     probe.verdict.err

\* C14 (amended): an ordering operator on a STRING, BOOLEAN or list column
\* fails with an error whenever the actual and the expected value are both
\* non-null and never yields true; on a null or absent actual value it yields
\* false without an error.
C14_Ordering ==
  (Evaluation /\ ProbeOperator \in Ordering /\ ProbeType \notin OrderedTypes) =>
     /\ (Actual.t # "nil" /\ Expected.t # "nil") => probe.verdict.err
     /\ Actual.t = "nil" => probe.verdict = Res(FALSE)
     /\ ~(~probe.verdict.err /\ probe.verdict.b)

\* GT on the STRING column, "US" against "FR", ended in an error
C14_Witness ==
  /\ Evaluation /\ ProbeOperator = "GT" /\ ProbeType = "STRING"
  /\ Actual = Str("US") /\ Expected = Str("FR")
  /\ probe.verdict.err

\* the canonical form of a raw element of the column
Canon(v) == coercePrimitive(elementDataType(ProbeType), v).v
\* the input holds a list of values of the column
ActualList == Actual \in Lists(probe.cell.Column)

\* C15 (as stated): on every column, list columns included, a cell with
\* ALL_EQUAL and a scalar expected value is accepted, and on a list input it
\* is true exactly when the list is non-empty and every element equals the
\* expected scalar, false otherwise, without error.
C15_Original ==
  (probe.stage # "drawn" /\ ProbeOperator = "ALL_EQUAL"
     /\ probe.cell.Value \in Elements(probe.cell.Column) /\ ActualList) =>
     /\ probe.stage # "rejected"
     /\ Evaluation =>
          probe.verdict = Res(/\ Len(Actual.l) > 0
                              /\ \A i \in DOMAIN Actual.l :
                                   Canon(Actual.l[i]) = Canon(probe.cell.Value))

\* the set of canonical elements of a raw list, the empty set for nil
CanonSet(v) == IF v.t = "nil" THEN {} ELSE {Canon(v.l[i]) : i \in DOMAIN v.l}
ActualSet == CanonSet(Actual)
ExpectedSet == CanonSet(probe.cell.Value)
\* the cell holds a list (or nil) and the input a list (or nil, or nothing)
ListAgainstList ==
  /\ probe.cell.Value \in {Nil} \cup Lists(probe.cell.Column)
  /\ Actual \in {Nil} \cup Lists(probe.cell.Column)

\* C16: on lists over the elements of the column, ANY_CONTAINED_IN is true
\* iff some actual element is an expected element (false on an empty or
\* absent actual list), ALL_CONTAINED_IN iff every actual element is an
\* expected element (true on an empty or absent actual list), CONTAINS_ALL
\* iff every expected element is an actual element; none of them fails.
C16_Collections ==
  (probe.stage # "drawn" /\ ListAgainstList
     /\ ProbeOperator \in {"ANY_CONTAINED_IN", "ALL_CONTAINED_IN", "CONTAINS_ALL"}) =>
     /\ probe.stage # "rejected"
     /\ Evaluation =>
          probe.verdict =
            Res(CASE ProbeOperator = "ANY_CONTAINED_IN" -> ActualSet \cap ExpectedSet # {}
                  [] ProbeOperator = "ALL_CONTAINED_IN" -> ActualSet \subseteq ExpectedSet
                  [] ProbeOperator = "CONTAINS_ALL" -> ExpectedSet \subseteq ActualSet)

\* ALL_CONTAINED_IN was evaluated on the list column with an empty actual
\* list against a non-empty expected list
C16_Witness ==
  /\ Evaluation /\ ProbeOperator = "ALL_CONTAINED_IN" /\ ProbeType = "LIST_STRING"
  /\ Actual = Anys(<<>>) /\ ExpectedSet # {}
  /\ probe.verdict = Res(TRUE)

NullTests == {"IS_NULL", "IS_NOT_NULL"}

\* C17 (as stated): for every column type and every input, IS_NULL is true
\* iff the input value of the column is null or absent, IS_NOT_NULL is its
\* negation, and neither fails whatever the non-null value is.
C17_Original ==
  (Evaluation /\ ProbeOperator \in NullTests) =>
     probe.verdict = Res((Actual.t = "nil") <=> (ProbeOperator = "IS_NULL"))

\* C17 (amended): for every column type and every input whose value for the
\* column is null, absent or coercible to the type of the column, IS_NULL is
\* true iff the value is null or absent and IS_NOT_NULL is its negation; a
\* value that cannot be coerced to the type of the column makes both fail.
C17_Nullity ==
  (Evaluation /\ ProbeOperator \in NullTests) =>
     IF ActualCoercible
     THEN probe.verdict = Res((Actual.t = "nil") <=> (ProbeOperator = "IS_NULL"))
     ELSE probe.verdict.err

\* IS_NOT_NULL was evaluated on the DATE column with a date in the input
C17_Witness ==
  /\ Evaluation /\ ProbeOperator = "IS_NOT_NULL" /\ ProbeType = "DATE"
  /\ Actual = Str("2024-01-01")
  /\ probe.verdict = Res(TRUE)

Equality == {"EQ", "NOT_EQ"}
\* what an ordering or equality operator yields on two numbers
Exactly(op, l, r) ==
  CASE op = "EQ" -> Res(l = r)
    [] op = "NOT_EQ" -> Res(l # r)
    [] OTHER -> Ordered(op, l, r)
\* the value is a base-10 literal
DecimalLiteral(v) == v.t = "string" /\ ParseDecimal(TrimSpace(v.s)).ok
LiteralValue(v) == ParseDecimal(TrimSpace(v.s)).v.n

\* C24: on a DECIMAL column, when the expected value and the input are both
\* base-10 string literals, the ordering and equality operators yield what
\* the exact comparison of the two decimal numbers yields, beyond the
\* precision of a float64.
C24_DecimalPrecision ==
  (/\ probe.stage # "drawn" /\ ProbeType = "DECIMAL"
   /\ ProbeOperator \in Ordering \cup Equality
   /\ DecimalLiteral(probe.cell.Value) /\ DecimalLiteral(Actual)) =>
     /\ Accepted
     /\ Evaluation =>
          probe.verdict = Exactly(ProbeOperator, LiteralValue(Actual),
                                  LiteralValue(probe.cell.Value))

\* the literal "10.25" was found greater than "10.24", two decimals a float64
\* does not tell apart
C24_Witness ==
  /\ Evaluation /\ ProbeType = "DECIMAL" /\ ProbeOperator = "GT"
  /\ Actual = Str("10.25") /\ probe.cell.Value = Str("10.24")
  /\ ToFloat64(LiteralValue(Actual)) = ToFloat64(LiteralValue(probe.cell.Value))
  /\ probe.verdict = Res(TRUE)

\* C28 (as stated): on an INTEGER column GT, GT_EQ, LT and LT_EQ yield
\* a > e, a >= e, a < e and a <= e over the integers for every pair of int64
\* values, also above 2^53.
C28_Original ==
  (/\ Evaluation /\ ProbeType = "INTEGER" /\ ProbeOperator \in Ordering
   /\ Actual.t \in IntTags /\ probe.cell.Value.t \in IntTags) =>
     probe.verdict = Ordered(ProbeOperator, Actual.n, probe.cell.Value.n)

\* the positive form of a negated operator
Negated ==
  {"NOT_ANY_CONTAINED_IN", "NOT_ALL_CONTAINED_IN", "NOT_CONTAINS_ALL", "NOT_IN", "NOT_EQ"}
Positive(op) ==
  CASE op = "NOT_ANY_CONTAINED_IN" -> "ANY_CONTAINED_IN"
    [] op = "NOT_ALL_CONTAINED_IN" -> "ALL_CONTAINED_IN"
    [] op = "NOT_CONTAINS_ALL" -> "CONTAINS_ALL"
    [] op = "NOT_IN" -> "IN"
    [] op = "NOT_EQ" -> "EQ"
    [] OTHER -> op
\* the verdict v fails exactly when the verdict pos fails and otherwise is
\* its negation
Negates(v, pos) == v.err = pos.err /\ (~pos.err => v.b = ~pos.b)

\* C27: on every column, input value and stored expected value, each of
\* NOT_ANY_CONTAINED_IN, NOT_ALL_CONTAINED_IN, NOT_CONTAINS_ALL, NOT_IN and
\* NOT_EQUAL fails exactly when its positive form fails and otherwise yields
\* the negation of what the positive form yields.
C27_Negation ==
  (Evaluation /\ ProbeOperator \in Negated) =>
     Negates(probe.verdict, evaluateCell(ProbeType, Positive(ProbeOperator), Actual, Expected))

\* NOT_IN failed in the operator itself, on an input of the column's type,
\* as IN does
C27_Witness ==
  /\ Evaluation /\ ProbeOperator = "NOT_IN"
  /\ ActualCoercible
  /\ probe.verdict.err
  /\ evaluateCell(ProbeType, "IN", Actual, Expected).err

(* ------------------- goroutines calling Evaluate ----------------------- *)
\* the rows and inputs offered to the goroutines
CallRows == {RowAdult, RowSenior}
CallInputs ==
  {Input(HostInt(40), Str("US")), Input(HostInt(20), Nil), Input(Str("abc"), Str("US"))}
CallFallbacks == {FallbackDecimal, FallbackStrings}

InitCalls ==
  /\ \E mp \in MatchPolicies : NewDecisionTable(mp, "RETURN_DEFAULT", "STRICT")
  /\ \E m \in CallFallbacks : \E r \in {StoreEntries(m, DOMAIN m, <<>>, EmptyHeap)} :
       /\ fallback = GoMap(r.m)
       /\ heap = r.h
  /\ probe = NoProbe
  /\ calls = NoCalls
  /\ conv = NoConv

\* construction is a single-writer phase that ends when the first call starts
Constructing == \A g \in Goroutines : calls[g].pc = "idle"

BuildRow(row) == Constructing /\ AddRowBounded(row, MaxCallRows)
BuildDefault(row) == Constructing /\ SetDefaultRow(row)

CallFrame ==
  /\ Configuration
  /\ UNCHANGED <<rows, defaultRow, fallback, res, err, prev, handle, last, mutations,
                 probe, conv>>

\* a goroutine enters Evaluate (the second one never before the first)
Begin(g, input, withFallback) ==
  /\ calls[g].pc = "idle"
  /\ \A k \in Goroutines : k < g => calls[k].pc # "idle"
  /\ calls' = [calls EXCEPT ![g] = EvalCall("scan", input, withFallback, 1, <<>>, "")]
  /\ UNCHANGED heap
  /\ CallFrame

\* the call c after the visit v of its row c.i
Visited(c, v) ==
  EvalCall(IF v.done THEN "after" ELSE "scan", c.input, c.fb, c.i + 1, v.out.res, v.out.err)

\* one pass of a goroutine through the body of the loop of Evaluate
VisitStep(g) ==
  /\ calls[g].pc = "scan"
  /\ calls[g].i <= Len(rows)
  /\ \E v \in {VisitRow(dt, calls[g].input, calls[g].i, calls[g].ms,
                        Reserve(heap, ResBase))} :
       /\ calls' = [calls EXCEPT ![g] = Visited(calls[g], v)]
       /\ heap' = Release(v.out.h)
  /\ CallFrame

\* the fallback map a call passes
PassedMap(c) == IF c.fb THEN fallback ELSE NilMap

\* a goroutine leaves the loop and returns
Return(g) ==
  /\ calls[g].pc = "after" \/ (calls[g].pc = "scan" /\ calls[g].i > Len(rows))
  /\ \E r \in {AfterLoop(dt, PassedMap(calls[g]),
                         Outcome(calls[g].ms, calls[g].err, Reserve(heap, ResBase), 0))} :
       /\ calls' = [calls EXCEPT ![g] = EvalCall("done", calls[g].input, calls[g].fb,
                                                 calls[g].i, r.res, r.err)]
       /\ heap' = Release(r.h)
  /\ CallFrame

NextCalls ==
  \/ \E row \in CallRows : BuildRow(row)
  \/ BuildDefault(DefaultMinor)
  \/ \E g \in Goroutines, input \in CallInputs, withFallback \in BOOLEAN :
       Begin(g, input, withFallback)
  \/ \E g \in Goroutines : VisitStep(g)
  \/ \E g \in Goroutines : Return(g)

SpecCalls == InitCalls /\ [][NextCalls]_vars

\* the heap without the objects the calls allocated
TableHeap == ClearRegion(ClearRegion(heap, ResBase, ResultObjs), PrevBase, ResultObjs)
\* what the call of goroutine g returns when it runs alone
Alone(g) ==
  EvaluateOp(dt, calls[g].input, PassedMap(calls[g]), Reserve(TableHeap, ResBase))
DeepIn(ms, h) ==
  [i \in DOMAIN ms |->
     [ms[i] EXCEPT !.Values = [k \in DOMAIN ms[i].Values |-> Load(ms[i].Values[k], h)]]]
SameAsAlone(g, a) ==
  /\ calls[g].err = a.err
  /\ DeepIn(calls[g].ms, heap) = DeepIn(a.res, a.h)
Returned(g) == calls[g].pc = "done"
ObjectsOfCall(g) == Reach(AddrsOfResult(calls[g].ms), heap)

\* C22 (as stated): once construction has finished, under any interleaving
\* of concurrent Evaluate calls each call returns the result it returns when
\* run alone, and the results of two calls share no mutable value.
C22_Original ==
  /\ \A g \in Goroutines : Returned(g) => SameAsAlone(g, Alone(g))
  /\ \A g, k \in Goroutines :
       (g # k /\ Returned(g) /\ Returned(k)) => ObjectsOfCall(g) \cap ObjectsOfCall(k) = {}

(* ------------------------- one raw value ------------------------------- *)
\* the largest value of an unsigned type, the 64-bit word scaled to 16 bits
UintMax(tag) ==
  CASE tag = "uint8" -> 3
    [] tag = "uint16" -> 15
    [] tag = "uint32" -> 255
    [] OTHER -> MaxUint64
UintValues(tag) == {k \in {0, 3, 40, MaxInt64, MaxInt64 + 1, MaxUint64} : k <= UintMax(tag)}
\* the raw values offered to the coercion: null, strings (empty, blank,
\* padded, of each type), host numbers and lists
RawScalars ==
  {Nil, Str(""), Str(" "), Str(" 40 "), Str("40"), Str("abc"), Str("TRUE"),
   Str("2024-01-01"), Str("2024-01-01T00:00:00Z"), HostInt(40), Int64(MaxInt64),
   Float(4000), Float(5), Bool(TRUE)}
   \cup {Uint(tag, k) : tag \in {"uint", "uint64"}, k \in UintValues("uint64")}
   \cup {Uint("uint8", k) : k \in UintValues("uint8")}
   \cup {Uint("uint16", k) : k \in UintValues("uint16")}
   \cup {Uint("uint32", k) : k \in UintValues("uint32")}
RawElements == {Nil, Str(" "), Str("40"), Uint("uint", MaxUint64)}
RawLists == {Anys(l) : l \in UNION {[1..n -> RawElements] : n \in 0..MaxListLen}}
Raws == RawScalars \cup RawLists

InitCoerce ==
  /\ NewDecisionTable("ALL", "THROW_ERROR", "STRICT")
  /\ heap = EmptyHeap
  /\ fallback = NilMap
  /\ probe = NoProbe
  /\ calls = NoCalls
  /\ \E dtype \in DataTypes, raw \in Raws : conv = Conv(dtype, raw, "drawn", Err)

\* coercePrimitive on the value
Coerce ==
  /\ conv.stage = "drawn"
  /\ conv' = [conv EXCEPT !.stage = "coerced", !.out = coercePrimitive(conv.dt, conv.raw)]
  /\ UNCHANGED <<rows, defaultRow, matchPolicy, noMatchPolicy, rowValidation, heap,
                 fallback, res, err, prev, handle, last, mutations, probe, calls>>

NextCoerce == Coerce

SpecCoerce == InitCoerce /\ [][NextCoerce]_vars

Coerced == conv.stage = "coerced"
Blank(v) == v.t = "string" /\ TrimSpace(v.s) = ""
ListTypes == {"LIST_STRING", "LIST_INTEGER"}
\* a list with a blank string among its elements
BlankElement == conv.raw.t \in SliceTags /\ \E i \in DOMAIN conv.raw.l : Blank(conv.raw.l[i])

\* C23 (as stated): coercion fails whenever the raw value is a string that
\* is empty after trimming, for every target type and for list elements, and
\* a null raw value coerces to null without error.
C23_Original ==
  Coerced =>
    /\ Blank(conv.raw) => ~conv.out.ok
    /\ (conv.dt \in ListTypes /\ BlankElement) => ~conv.out.ok
    /\ conv.raw.t = "nil" => conv.out = Ok(Nil)

\* C23 (amended): coercion fails whenever the raw value is a string that is
\* empty after trimming for every target type but STRING, and whenever an
\* element of a list coerced to LIST_INTEGER is such a string; a STRING target
\* and the elements of a LIST_STRING keep such a string as it is, without
\* error; a null raw value coerces to null without error.
C23_BlankStrings ==
  Coerced =>
    /\ (Blank(conv.raw) /\ conv.dt # "STRING") => ~conv.out.ok
    /\ (Blank(conv.raw) /\ conv.dt = "STRING") => conv.out = Ok(conv.raw)
    /\ (conv.dt = "LIST_INTEGER" /\ BlankElement) => ~conv.out.ok
    /\ (conv.dt = "LIST_STRING" /\ BlankElement) =>
         /\ conv.out.ok
         /\ \A i \in DOMAIN conv.raw.l : Blank(conv.raw.l[i]) => conv.out.v.l[i] = conv.raw.l[i]
    /\ conv.raw.t = "nil" => conv.out = Ok(Nil)

\* a list holding "40" and a blank string was coerced to LIST_STRING
C23_Witness ==
  /\ Coerced /\ conv.dt = "LIST_STRING"
  /\ conv.raw = Anys(<<Str("40"), Str(" ")>>)
  /\ conv.out = Ok(conv.raw)

\* C30 (as stated): coercing an unsigned host integer of any width to
\* INTEGER yields the same mathematical value as an int64 or fails; it never
\* yields a negative or otherwise different value.
C30_Original ==
  (Coerced /\ conv.dt = "INTEGER" /\ conv.raw.t \in UintTags) =>
     (~conv.out.ok \/ conv.out = Ok(Int64(conv.raw.n)))

(* --------------------- what Evaluate leaves alone ---------------------- *)
\* the objects of the caller's fallback map and of the stored rows
TableObjects == [a \in 1..(ResBase - 1) |-> heap[a]]

VerdictsOf(i) == CellVerdicts(CellsAt(rows[i].EvalCells, heap), last.input, heap)
Reversed(s) == [j \in DOMAIN s |-> s[Len(s) + 1 - j]]
\* cell k of the row is its first cell that does not match, after cells that
\* all match
FirstNonMatch(vs, k) == vs[k] = Res(FALSE) /\ \A j \in 1..(k - 1) : vs[j] = Res(TRUE)
\* a cell after cell k fails on the input
LaterFailure(vs, k) == \E j \in DOMAIN vs : j > k /\ vs[j].err
ShortCircuit(i, vs) ==
  \A k \in DOMAIN vs : FirstNonMatch(vs, k) =>
     /\ Match(i) = Res(FALSE)
     /\ (Evaluated /\ last.tested >= i) => err # "evaluation" \/ FailingRows # {}

\* C26: the cells of a row are evaluated in declared order and matches stops
\* at the first non-match: when the first cell that does not match comes after
\* matching cells only, the row yields false without error, whatever a later
\* cell would do on the input.
C26_ShortCircuit == \A i \in DOMAIN rows : ShortCircuit(i, VerdictsOf(i))

\* Evaluate passed over a row whose first cell does not match and whose
\* second cell fails on the input: with its cells in the opposite order the
\* row ends in an error
C26_Witness ==
  /\ Evaluated /\ err = ""
  /\ \E i \in DOMAIN rows :
       /\ last.tested >= i
       /\ FirstNonMatch(VerdictsOf(i), 1) /\ LaterFailure(VerdictsOf(i), 1)
       /\ Match(i) = Res(FALSE)
       /\ LoopUntil(Reversed(VerdictsOf(i)), FALSE) = Fail

(* ----------------------- FIRST next to ALL ----------------------------- *)
\* what the latest call of Evaluate returns on the same rows, input and
\* fallback map when the match policy is mp
Under(mp) ==
  EvaluateOp([dt EXCEPT !.matchPolicy = mp], last.input,
             IF last.fb THEN fallback ELSE NilMap, Reserve(DropResult(heap), ResBase))
\* the result of the call itself is the one computed for its own policy
Observed(o) == err = o.err /\ (err = "" => DeepRes = DeepIn(o.res, Release(o.h)))
\* FIRST returns the first entry of what ALL returns
FirstOfAll(all, first) ==
  (all.err = "" /\ MatchingRows # {}) =>
     /\ first.err = ""
     /\ Len(first.res) = 1
     /\ DeepIn(first.res, first.h)[1] = DeepIn(all.res, all.h)[1]

\* C29: on the same rows and input, whenever evaluation under ALL succeeds
\* with at least one matching row, evaluation under FIRST succeeds and
\* returns exactly the first entry of the ALL result; FIRST calls matches on
\* no row after the first match.
C29_FirstOfAll ==
  Evaluated =>
    /\ FirstOfAll(Under("ALL"), Under("FIRST"))
    /\ matchPolicy \in {"FIRST", "ALL"} => Observed(Under(matchPolicy))
    /\ (matchPolicy = "FIRST" /\ MatchingRows # {} /\ NoFailureUpTo(FirstMatch)) =>
         last.tested = FirstMatch

\* FIRST returned the entry of the first row on an input on which a later
\* row fails, so that ALL and UNIQUE end in an evaluation error
C29_Witness ==
  /\ Evaluated /\ matchPolicy = "FIRST"
  /\ err = "" /\ Len(res) = 1
  /\ \E j \in FailingRows : j > FirstMatch
  /\ Under("ALL").err = "evaluation"
  /\ Under("UNIQUE").err = "evaluation"

====
